---- MODULE Spec2Model ----
(***************************************************************************)
(* next-build-filter: the route filtering decision of                      *)
(* NextBuildFilterPlugin (src/lib/next-build-filter-plugin.js) and the     *)
(* places where webpack and Node's module loader consult it.               *)
(* With it, the path functions called on their own (PathSpec), the         *)
(* configuration wrapper withPageFilter of src/lib/with-page-filter.js     *)
(* (WrapSpec), the stand-in module src/lib/empty-module.js (StandInSpec),  *)
(* the patterns one plugin compiles over a sequence of calls (CompileSpec) *)
(* and Module._resolveFilename over the plugins of a build (InterceptSpec).*)
(*                                                                         *)
(* Paths, patterns and route identifiers are strings; the JavaScript       *)
(* string methods and the regular expressions the code applies to them are *)
(* operators over the characters of those strings.                         *)
(***************************************************************************)
EXTENDS Integers, Sequences, FiniteSets, TLC

VARIABLES
    options,    \* this.options of the plugin instance (constructor)
    applied,    \* apply(compiler) has registered the hooks and the interceptor
    stage,      \* where the operation in flight stands: idle between operations
    original,   \* the request as webpack (or the caller) issued it
    context,    \* resolveData.context / module.context / parent.filename
    request,    \* resolveData.request, then module.resource: what is built
    filtered,   \* module._filtered
    result,     \* what the last direct call or the resolver returned
    threw,      \* the last operation ended by throwing instead of returning
    argument,   \* the JavaScript value a caller handed to the function it calls
    env,        \* process.env.FILTER_PAGES
    nextConfig, \* the Next.js configuration given to withPageFilter(options)
    wrapped,    \* what withPageFilter(options)(nextConfig) returned
    config,     \* the webpack configuration the webpack function works on
    calls,      \* what the webpack function in flight has done, in order
    notFoundFn, \* empty-module.js: what require('next/navigation').notFound gave
    React,      \* empty-module.js: what require('react') gave
    res,        \* the response object handed to getInitialProps
    compilations, \* how often each pattern has been compiled so far
    layers,     \* Module._resolveFilename: the interceptors wrapped around it
    instances   \* this.originalResolveFilename of each plugin instance

\* The state of withPageFilter and of the webpack function it returns.
wrapVars == <<env, nextConfig, wrapped, config, calls>>

\* The state outside the plugin instance: the stand-in module, the pattern
\* compilations, and the module loader of the process.
processVars == <<notFoundFn, React, res, compilations, layers, instances>>

vars == <<options, applied, stage, original, context, request, filtered, result,
          threw, argument, wrapVars, processVars>>

(***************************************************************************)
(* JavaScript strings.  Indices are 0-based as in JavaScript; -1 is "not   *)
(* found".                                                                 *)
(***************************************************************************)
Ch(s, i) == SubSeq(s, i, i)

StartsWithAt(s, sub, i) ==
    /\ i >= 1
    /\ i + Len(sub) - 1 <= Len(s)
    /\ SubSeq(s, i, i + Len(sub) - 1) = sub

startsWith(s, sub) == StartsWithAt(s, sub, 1)

endsWith(s, sub) == StartsWithAt(s, sub, Len(s) - Len(sub) + 1)

indexOf(s, sub) ==
    LET hits == {i \in 1..(Len(s) + 1) : StartsWithAt(s, sub, i)}
    IN  IF hits = {} THEN -1
        ELSE (CHOOSE i \in hits : \A j \in hits : i <= j) - 1

includes(s, sub) == indexOf(s, sub) # -1

substring(s, from) == SubSeq(s, from + 1, Len(s))

UpperCase == "ABCDEFGHIJKLMNOPQRSTUVWXYZ"
LowerCase == "abcdefghijklmnopqrstuvwxyz"

\* The lower-case form of each upper-case letter.
LowerOf ==
    [c \in {Ch(UpperCase, i) : i \in 1..Len(UpperCase)} |->
        Ch(LowerCase, indexOf(UpperCase, c) + 1)]

toLowerCaseChar(c) == IF c \in DOMAIN LowerOf THEN LowerOf[c] ELSE c

RECURSIVE MapChars(_, _, _)
\* s with every character from position i on mapped: a backslash becomes a
\* slash (slashes = TRUE) and a letter becomes its lower-case form.
MapChars(s, i, slashes) ==
    IF i > Len(s) THEN ""
    ELSE LET c == Ch(s, i)
             d == IF slashes /\ c = "\\" THEN "/" ELSE toLowerCaseChar(c)
         IN  d \o MapChars(s, i + 1, slashes)

\* filePath.toLowerCase() alone: the separators stay as they are written.
lowerCaseOnly(filePath) ==
    IF filePath = "" THEN "" ELSE MapChars(filePath, 1, FALSE)

(***************************************************************************)
(* normalizePath(filePath): filePath.replace(/\\/g, '/').toLowerCase(),    *)
(* and '' for an empty path.                                               *)
(***************************************************************************)
normalizePath(filePath) ==
    IF filePath = "" THEN "" ELSE MapChars(filePath, 1, TRUE)

(***************************************************************************)
(* A JavaScript value of any type, where a caller may pass one: what       *)
(* typeof says of it, and its text.                                        *)
(***************************************************************************)
undefined == [type |-> "undefined", value |-> "undefined"]
\* A string value.
Str(s) == [type |-> "string", value |-> s]
\* A value that is not a string: a number, a boolean, null, an object.
NonString(type, text) == [type |-> type, value |-> text]

\* normalizePath(filePath) for any value: '' when typeof filePath is not
\* 'string' (and when the string is empty, which !filePath catches).
normalizePathOfValue(filePath) ==
    IF filePath.type # "string" THEN "" ELSE normalizePath(filePath.value)

(***************************************************************************)
(* The regular-expression replacements of extractRoutePath.                *)
(***************************************************************************)
pageExtensions == {".js", ".jsx", ".ts", ".tsx"}

\* routePath.replace(/\/?page\.(tsx|ts|jsx|js)$/, ''): the text "page.<ext>"
\* that ends the string goes, with the slash before it when there is one.
StripPageFile(s) ==
    LET ends == {e \in pageExtensions : endsWith(s, "page" \o e)}
    IN  IF ends = {} THEN s
        ELSE LET e    == CHOOSE x \in ends : \A y \in ends : Len(x) >= Len(y)
                 keep == Len(s) - Len("page" \o e)
             IN  IF keep >= 1 /\ Ch(s, keep) = "/"
                 THEN SubSeq(s, 1, keep - 1)
                 ELSE SubSeq(s, 1, keep)

\* routePath.replace(/^\//, '')
StripLeadingSlash(s) == IF startsWith(s, "/") THEN SubSeq(s, 2, Len(s)) ELSE s

\* Where a match of \([^)]+\) that starts at the "(" at position j ends, or 0:
\* the first ")" after j, provided at least one character stands between.
GroupEnd(s, j) ==
    LET closes == {k \in (j + 1)..Len(s) : Ch(s, k) = ")"}
    IN  IF j > Len(s) \/ Ch(s, j) # "(" \/ closes = {} THEN 0
        ELSE LET k == CHOOSE x \in closes : \A y \in closes : x <= y
             IN  IF k >= j + 2 THEN k ELSE 0

RECURSIVE StripRouteGroups(_, _)
\* routePath.replace(/\/?\([^)]+\)/g, ''), from position i on.
StripRouteGroups(s, i) ==
    IF i > Len(s) THEN ""
    ELSE LET withSlash == IF Ch(s, i) = "/" THEN GroupEnd(s, i + 1) ELSE 0
             bare      == GroupEnd(s, i)
         IN  IF withSlash # 0 THEN StripRouteGroups(s, withSlash + 1)
             ELSE IF bare # 0 THEN StripRouteGroups(s, bare + 1)
             ELSE Ch(s, i) \o StripRouteGroups(s, i + 1)

\* routePath.replace(/\.(tsx|ts|jsx|js)$/, '')
StripExtension(s) ==
    LET ends == {e \in pageExtensions : endsWith(s, e)}
    IN  IF ends = {} THEN s
        ELSE LET e == CHOOSE x \in ends : \A y \in ends : Len(x) >= Len(y)
             IN  SubSeq(s, 1, Len(s) - Len(e))

RECURSIVE CollapseSlashes(_, _)
\* routePath.replace(/\/+/g, '/'), from position i on.
CollapseSlashes(s, i) ==
    IF i > Len(s) THEN ""
    ELSE IF Ch(s, i) = "/" /\ i < Len(s) /\ Ch(s, i + 1) = "/"
         THEN CollapseSlashes(s, i + 1)
         ELSE Ch(s, i) \o CollapseSlashes(s, i + 1)

\* .replace(/^\/|\/$/g, ''): one leading and one trailing slash go.
TrimSlashes(s) ==
    LET a == StripLeadingSlash(s)
    IN  IF endsWith(a, "/") THEN SubSeq(a, 1, Len(a) - 1) ELSE a

(***************************************************************************)
(* extractRoutePath(normalizedRequest).  A JavaScript value that may be    *)
(* null is the empty set or the singleton of the string.                   *)
(***************************************************************************)
null == {}
Some(v) == {v}
The(o) == CHOOSE v \in o : TRUE
\* !routePath: null and the empty string are both falsy.
Falsy(o) == o = null \/ o = Some("")

\* normalizedRequest.substring(index + segment.length) when indexOf finds the
\* segment, otherwise the routePath the code had before.
afterSegment(normalizedRequest, segment, routePath) ==
    IF includes(normalizedRequest, segment)
    THEN Some(substring(normalizedRequest,
                        indexOf(normalizedRequest, segment) + Len(segment)))
    ELSE routePath

\* The Pages Router block: it runs when the App Router block left routePath
\* falsy, and looks for the private-next-pages/ alias before the directory.
pagesRoutePath(routePath, normalizedRequest, o) ==
    IF Falsy(routePath) /\ o.supportPagesRouter
    THEN IF includes(normalizedRequest, "private-next-pages/")
         THEN afterSegment(normalizedRequest, "private-next-pages/", routePath)
         ELSE afterSegment(normalizedRequest, "/" \o o.pagesDir \o "/", routePath)
    ELSE routePath

\* return routePath, whatever is left of it.
rootRouteAsLeft(routePath) == Some(routePath)

\* if (!routePath || routePath === '') return 'index'
rootRoute(routePath) == IF routePath = "" THEN Some("index") ELSE Some(routePath)

\* From the null check on: the file name or the extension goes, then the
\* empty segments and the outer slashes.
cleanRoutePath(routePath, normalizedRequest, o) ==
    IF Falsy(routePath) THEN null
    ELSE rootRoute(TrimSlashes(CollapseSlashes(
            IF o.supportAppRouter /\ includes(normalizedRequest, "/" \o o.appDir \o "/")
            THEN StripRouteGroups(StripLeadingSlash(StripPageFile(The(routePath))), 1)
            ELSE StripExtension(The(routePath)), 1)))

extractRoutePath(normalizedRequest, o) ==
    cleanRoutePath(
        pagesRoutePath(
            IF o.supportAppRouter
            THEN afterSegment(normalizedRequest, "/" \o o.appDir \o "/", null)
            ELSE null,
            normalizedRequest, o),
        normalizedRequest, o)

(***************************************************************************)
(* isPageFile(request, context).  An absent context is the empty string    *)
(* (falsy, like null and undefined).                                       *)
(***************************************************************************)
appRouterSpecialFiles ==
    {base \o ext : base \in {"layout", "loading", "error", "not-found", "template"},
                   ext \in pageExtensions}

isPageFile(req, ctx, o) ==
    IF req = "" THEN FALSE
    ELSE IF ~ \E ext \in pageExtensions : endsWith(req, ext) THEN FALSE
    ELSE LET appSeg   == "/" \o o.appDir \o "/"
             pagesSeg == "/" \o o.pagesDir \o "/"
             isInPages == o.supportPagesRouter /\
                             ( \/ includes(req, pagesSeg)
                               \/ includes(req, "private-next-pages/")
                               \/ (ctx # "" /\ includes(ctx, pagesSeg)) )
             isInApp   == o.supportAppRouter /\
                             ( \/ includes(req, appSeg)
                               \/ (ctx # "" /\ includes(ctx, appSeg)) )
         IN  IF isInApp
             THEN IF \E file \in appRouterSpecialFiles : endsWith(req, file)
                  THEN FALSE
                  ELSE \E ext \in pageExtensions : endsWith(req, "page" \o ext)
             ELSE isInPages

(***************************************************************************)
(* minimatch(path, pattern) of the minimatch package, default options, for *)
(* patterns without brace alternation and without extglobs: a leading "#"  *)
(* is a comment, leading "!"s negate, the pattern and the path are split   *)
(* on runs of "/", "**" alone in a part is a globstar, and within a part   *)
(* "*", "?", "[...]" and "\" have their glob meaning.                      *)
(***************************************************************************)
Ascii ==
    " !\"#$%&'()*+,-./0123456789:;<=>?@ABCDEFGHIJKLMNOPQRSTUVWXYZ[\\]^_abcdefghijklmnopqrstuvwxyz{|}~"

\* The place of each character in the character set's order (the printable
\* characters but the backquote).
CodeOf == [c \in {Ch(Ascii, i) : i \in 1..Len(Ascii)} |-> indexOf(Ascii, c)]

Code(c) == CodeOf[c]

RECURSIVE SkipSlashes(_, _)
SkipSlashes(s, i) ==
    IF i <= Len(s) /\ Ch(s, i) = "/" THEN SkipSlashes(s, i + 1) ELSE i

RECURSIVE SplitFrom(_, _, _)
SplitFrom(s, i, cur) ==
    IF i > Len(s) THEN <<cur>>
    ELSE IF Ch(s, i) = "/" THEN <<cur>> \o SplitFrom(s, SkipSlashes(s, i), "")
    ELSE SplitFrom(s, i + 1, cur \o Ch(s, i))

\* s.split(/\/+/)
slashSplit(s) == SplitFrom(s, 1, "")

\* Where the members of the class opened by the "[" at position i start.
ClassStart(pat, i) ==
    IF i < Len(pat) /\ Ch(pat, i + 1) \in {"!", "^"} THEN i + 2 ELSE i + 1

\* The "]" that closes the class opened at position i, or 0 when none does:
\* a "]" that comes first in the class is a member of it.
ClassEnd(pat, i) ==
    LET closes == {k \in (ClassStart(pat, i) + 1)..Len(pat) : Ch(pat, k) = "]"}
    IN  IF closes = {} THEN 0
        ELSE CHOOSE k \in closes : \A j \in closes : k <= j

RECURSIVE ClassHas(_, _, _, _)
\* Whether c is a member, or in a range x-y, of pat[j..k-1].
ClassHas(pat, j, k, c) ==
    IF j >= k THEN FALSE
    ELSE IF j + 2 < k /\ Ch(pat, j + 1) = "-"
         THEN \/ (Code(Ch(pat, j)) <= Code(c) /\ Code(c) <= Code(Ch(pat, j + 2)))
              \/ ClassHas(pat, j + 3, k, c)
         ELSE Ch(pat, j) = c \/ ClassHas(pat, j + 1, k, c)

\* Whether the class opened at position i accepts the character c.  A class
\* none of whose ranges is valid accepts nothing, negated or not.
ClassAccepts(pat, i, c) ==
    LET from == ClassStart(pat, i)
        to   == ClassEnd(pat, i)
        any  == \E k \in 1..Len(Ascii) : ClassHas(pat, from, to, Ch(Ascii, k))
    IN  /\ any
        /\ IF from = i + 2 THEN ~ClassHas(pat, from, to, c)
                           ELSE ClassHas(pat, from, to, c)

RECURSIVE MatchPart(_, _, _, _)
\* Whether the pattern part pat, from position pi on, matches the whole of
\* the path part f from position fi on.
MatchPart(pat, pi, f, fi) ==
    IF pi > Len(pat) THEN fi > Len(f)
    ELSE LET c == Ch(pat, pi)
         IN  IF c = "\\" /\ pi < Len(pat)
             THEN /\ fi <= Len(f)
                  /\ Ch(f, fi) = Ch(pat, pi + 1)
                  /\ MatchPart(pat, pi + 2, f, fi + 1)
             ELSE IF c = "*"
             THEN \/ MatchPart(pat, pi + 1, f, fi)
                  \/ (fi <= Len(f) /\ MatchPart(pat, pi, f, fi + 1))
             ELSE IF c = "?"
             THEN fi <= Len(f) /\ MatchPart(pat, pi + 1, f, fi + 1)
             ELSE IF c = "[" /\ ClassEnd(pat, pi) # 0
             THEN /\ fi <= Len(f)
                  /\ ClassAccepts(pat, pi, Ch(f, fi))
                  /\ MatchPart(pat, ClassEnd(pat, pi) + 1, f, fi + 1)
             ELSE /\ fi <= Len(f)
                  /\ Ch(f, fi) = c
                  /\ MatchPart(pat, pi + 1, f, fi + 1)

\* Whether position i of the part starts a magic item.
MagicAt(pat, i) ==
    \/ Ch(pat, i) \in {"*", "?"}
    \/ (Ch(pat, i) = "[" /\ ClassEnd(pat, i) # 0)

RECURSIVE HasMagic(_, _)
HasMagic(pat, i) ==
    IF i > Len(pat) THEN FALSE
    ELSE IF Ch(pat, i) = "\\" THEN HasMagic(pat, i + 2)
    ELSE MagicAt(pat, i) \/ HasMagic(pat, i + 1)

\* One pattern part against one path part: a magic part matches no empty
\* part, and one that starts with a magic item matches no dot file.
partMatches(pat, f) ==
    /\ HasMagic(pat, 1) => f # ""
    /\ (pat # "" /\ MagicAt(pat, 1)) => ~startsWith(f, ".")
    /\ MatchPart(pat, 1, f, 1)

RECURSIVE matchOne(_, _, _, _)
\* Minimatch.matchOne(file, pattern) from the parts fi and pi on.
matchOne(file, fi, pattern, pi) ==
    LET fl == Len(file)
        pl == Len(pattern)
    IN  IF fi > fl \/ pi > pl
        THEN IF fi > fl THEN pi > pl
             ELSE fi = fl /\ file[fi] = ""
        ELSE IF pattern[pi] = "**"
        THEN IF pi = pl
             THEN \A k \in fi..fl : ~startsWith(file[k], ".")
             ELSE \E fr \in fi..fl :
                     /\ \A k \in fi..(fr - 1) : ~startsWith(file[k], ".")
                     /\ matchOne(file, fr, pattern, pi + 1)
        ELSE /\ partMatches(pattern[pi], file[fi])
             /\ matchOne(file, fi + 1, pattern, pi + 1)

RECURSIVE NegateCount(_, _)
NegateCount(pattern, i) ==
    IF i <= Len(pattern) /\ Ch(pattern, i) = "!"
    THEN 1 + NegateCount(pattern, i + 1) ELSE 0

minimatch(path, pattern) ==
    IF startsWith(pattern, "#") THEN FALSE
    ELSE IF pattern = "" THEN path = ""
    ELSE LET n    == NegateCount(pattern, 1)
             glob == SubSeq(pattern, n + 1, Len(pattern))
             hit  == matchOne(slashSplit(path), 1, slashSplit(glob), 1)
         IN  IF n % 2 = 1 THEN ~hit ELSE hit

(***************************************************************************)
(* new RegExp(source) and regex.test(s), for sources built from literal    *)
(* characters, ".", escapes, character classes, the anchors "^" and "$"    *)
(* and the quantifiers "*", "+" and "?".  A source with an unbalanced      *)
(* parenthesis, an unterminated class, a quantifier with nothing to repeat *)
(* or a trailing backslash is malformed: new RegExp throws a SyntaxError.  *)
(***************************************************************************)
\* Where the members of the class opened by the "[" at position i start.
ReClassStart(src, i) ==
    IF i < Len(src) /\ Ch(src, i + 1) = "^" THEN i + 2 ELSE i + 1

\* The "]" that closes the class opened at position i, or 0.
ReClassEnd(src, i) ==
    LET closes == {k \in ReClassStart(src, i)..Len(src) : Ch(src, k) = "]"}
    IN  IF closes = {} THEN 0
        ELSE CHOOSE k \in closes : \A j \in closes : k <= j

RECURSIVE SyntaxError(_, _, _, _)
\* Whether parsing the source from position i on fails, inside `depth` open
\* groups, with (canRepeat) or without an item a quantifier could apply to.
SyntaxError(src, i, depth, canRepeat) ==
    IF i > Len(src) THEN depth # 0
    ELSE LET c == Ch(src, i)
         IN  IF c = "\\"
             THEN i = Len(src) \/ SyntaxError(src, i + 2, depth, TRUE)
             ELSE IF c = "["
             THEN ReClassEnd(src, i) = 0
                  \/ SyntaxError(src, ReClassEnd(src, i) + 1, depth, TRUE)
             ELSE IF c = "("
             THEN SyntaxError(src, i + 1, depth + 1, FALSE)
             ELSE IF c = ")"
             THEN depth = 0 \/ SyntaxError(src, i + 1, depth - 1, TRUE)
             ELSE IF c \in {"*", "+", "?"}
             THEN ~canRepeat
                  \/ SyntaxError(src,
                                 IF i < Len(src) /\ Ch(src, i + 1) = "?"
                                 THEN i + 2 ELSE i + 1,
                                 depth, FALSE)
             ELSE IF c \in {"^", "$", "|"}
             THEN SyntaxError(src, i + 1, depth, FALSE)
             ELSE SyntaxError(src, i + 1, depth, TRUE)

\* The length of the item (a character, an escape, a class) at position i.
ItemLen(src, i) ==
    IF Ch(src, i) = "\\" THEN 2
    ELSE IF Ch(src, i) = "[" THEN ReClassEnd(src, i) - i + 1
    ELSE 1

\* Whether the item at position i accepts the character c.
ItemAccepts(src, i, c) ==
    IF Ch(src, i) = "."  THEN TRUE
    ELSE IF Ch(src, i) = "\\"
    THEN IF Ch(src, i + 1) = "d" THEN Code("0") <= Code(c) /\ Code(c) <= Code("9")
         ELSE Ch(src, i + 1) = c
    ELSE IF Ch(src, i) = "["
    THEN LET from == ReClassStart(src, i)
             in   == ClassHas(src, from, ReClassEnd(src, i), c)
         IN  IF from = i + 2 THEN ~in ELSE in
    ELSE Ch(src, i) = c

RECURSIVE MatchHere(_, _, _, _), Repeat(_, _, _, _, _)
\* Whether the source from position pi on matches s from position si on.
MatchHere(src, pi, s, si) ==
    IF pi > Len(src) THEN TRUE
    ELSE IF Ch(src, pi) = "^" THEN si = 1 /\ MatchHere(src, pi + 1, s, si)
    ELSE IF Ch(src, pi) = "$" THEN si = Len(s) + 1 /\ MatchHere(src, pi + 1, s, si)
    ELSE LET q    == pi + ItemLen(src, pi)
             quant == IF q <= Len(src) THEN Ch(src, q) ELSE ""
             lazy == q < Len(src) /\ Ch(src, q + 1) = "?"
             next == IF lazy THEN q + 2 ELSE q + 1
             one  == si <= Len(s) /\ ItemAccepts(src, pi, Ch(s, si))
         IN  IF quant = "*" THEN Repeat(src, pi, next, s, si)
             ELSE IF quant = "+" THEN one /\ Repeat(src, pi, next, s, si + 1)
             ELSE IF quant = "?"
             THEN MatchHere(src, next, s, si)
                  \/ (one /\ MatchHere(src, next, s, si + 1))
             ELSE one /\ MatchHere(src, q, s, si + 1)

\* The item at pi any number of times, then the source from next on.
Repeat(src, pi, next, s, si) ==
    \/ MatchHere(src, next, s, si)
    \/ /\ si <= Len(s)
       /\ ItemAccepts(src, pi, Ch(s, si))
       /\ Repeat(src, pi, next, s, si + 1)

\* regex.test(s): a match starting anywhere in s.
RegExpTest(src, s) == \E start \in 1..(Len(s) + 1) : MatchHere(src, 1, s, start)

(***************************************************************************)
(* How a call ends: it returns a value or it throws.                       *)
(***************************************************************************)
Return(v) == [threw |-> FALSE, value |-> v]
\* A thrown call has no value; v only keeps the record's type.
Throw(v)  == [threw |-> TRUE, value |-> v]

(***************************************************************************)
(* shouldExcludePage(request)                                              *)
(***************************************************************************)
\* The callback without its prefix fallback: a glob match or the same text.
pageMatchesWithoutPrefix(routePath, page) ==
    LET normalizedPage == normalizePath(page)
    IN  \/ minimatch(routePath, normalizedPage)
        \/ routePath = normalizedPage

\* The callback given to includedPages.some and to excludedPages.some.
pageMatches(routePath, page) ==
    LET normalizedPage == normalizePath(page)
    IN  \/ minimatch(routePath, normalizedPage)
        \/ routePath = normalizedPage
        \/ startsWith(routePath, normalizedPage \o "/")

\* The callback reduced to its fallback: the route contains the entry.
pageContainsEntry(routePath, page) ==
    includes(routePath, normalizePath(page))

\* The callback of shouldExcludePage in with-page-filter.js: its fallback is
\* routePath.includes(normalizedPage).
pageMatchesBySubstring(routePath, page) ==
    LET normalizedPage == normalizePath(page)
    IN  \/ minimatch(routePath, normalizedPage)
        \/ routePath = normalizedPage
        \/ includes(routePath, normalizedPage)

\* The fallback of the older callback: the route need only contain the entry.
isIncludedBySubstring(routePath, o) ==
    \E i \in 1..Len(o.includedPages) :
        \/ pageMatches(routePath, o.includedPages[i])
        \/ includes(routePath, normalizePath(o.includedPages[i]))

isIncluded(routePath, o) ==
    \E i \in 1..Len(o.includedPages) : pageMatches(routePath, o.includedPages[i])

\* The callback without its fallback: glob matching alone.
isExcludedByGlobOnly(routePath, o) ==
    \E i \in 1..Len(o.excludedPages) :
        minimatch(routePath, normalizePath(o.excludedPages[i]))

isExcluded(routePath, o) ==
    \E i \in 1..Len(o.excludedPages) : pageMatches(routePath, o.excludedPages[i])

\* The catch block of the excludePatterns callback: it warns and returns
\* false.
catchInvalidRegex(r) == IF r.threw THEN Return(FALSE) ELSE r

\* The regular expression kept between calls and built with the g flag:
\* test() resumes where the last match ended, so a route that matched is
\* not found by the next test.
regexTestResuming(pattern, routePath) ==
    IF SyntaxError(pattern, 1, 0, FALSE) THEN Throw(FALSE)
    ELSE Return(/\ RegExpTest(pattern, routePath)
                /\ \A i \in 1..Len(calls) :
                      ~( /\ calls[i].function = "shouldExcludePage"
                         /\ calls[i].value = TRUE ))

\* The try block of the excludePatterns callback.
regexTest(pattern, routePath) ==
    IF SyntaxError(pattern, 1, 0, FALSE) THEN Throw(FALSE)
    ELSE Return(RegExpTest(pattern, routePath))

\* The callback without its catch block.
uncaughtRegexTest(pattern, routePath) == regexTest(pattern, routePath)

\* The callback given to excludePatterns.some.
excludePatternCallback(pattern, routePath) ==
    catchInvalidRegex(regexTest(pattern, routePath))

RECURSIVE somePattern(_, _, _)
\* Array.prototype.some after the callback returned r for entry i: it stops
\* at the first true, and a throw of the callback ends it.
nextPattern(r, patterns, i, routePath) ==
    IF r.threw \/ r.value THEN r ELSE somePattern(patterns, i + 1, routePath)

\* excludePatterns.some(callback) from entry i on.
somePattern(patterns, i, routePath) ==
    IF i > Len(patterns) THEN Return(FALSE)
    ELSE nextPattern(excludePatternCallback(patterns[i], routePath),
                     patterns, i, routePath)

\* The deny lists consulted whatever the mode, before the allow list.
excludeRouteDenyListsFirst(routePath, o) ==
    IF Falsy(routePath) THEN Return(FALSE)
    ELSE IF Len(o.excludedPages) > 0 /\ isExcluded(The(routePath), o)
    THEN Return(TRUE)
    ELSE IF Len(o.excludePatterns) > 0
            /\ somePattern(o.excludePatterns, 1, The(routePath)).value
    THEN Return(TRUE)
    ELSE IF Len(o.includedPages) > 0
    THEN Return(~isIncluded(The(routePath), o))
    ELSE Return(FALSE)

\* shouldExcludePage from the extraction of routePath on.
excludeRoute(routePath, o) ==
    IF Falsy(routePath) THEN Return(FALSE)
    ELSE IF Len(o.includedPages) > 0
    THEN Return(~isIncluded(The(routePath), o))
    ELSE IF Len(o.excludedPages) > 0 /\ isExcluded(The(routePath), o)
    THEN Return(TRUE)
    ELSE IF Len(o.excludePatterns) > 0
    THEN somePattern(o.excludePatterns, 1, The(routePath))
    ELSE Return(FALSE)

\* The regular expressions tested against the normalized request instead of
\* the route extracted from it.
shouldExcludePageByPath(req, o) ==
    IF Falsy(extractRoutePath(normalizePath(req), o)) THEN Return(FALSE)
    ELSE IF Len(o.includedPages) > 0 \/ Len(o.excludedPages) > 0
    THEN excludeRoute(extractRoutePath(normalizePath(req), o), o)
    ELSE somePattern(o.excludePatterns, 1, normalizePath(req))

shouldExcludePage(req, o) ==
    excludeRoute(extractRoutePath(normalizePath(req), o), o)

(***************************************************************************)
(* The hooks apply(compiler) registers.  Each is the function of what it   *)
(* is given; the actions below write its outcome to the state.             *)
(***************************************************************************)
\* this.emptyModulePath: path.resolve(__dirname, 'empty-module.js')
emptyModulePath == "/proj/node_modules/next-build-filter/lib/empty-module.js"

\* What a resolve hook leaves in resolveData.request once shouldExcludePage
\* has ended as x: the stand-in, when the page is excluded and the hook's
\* own condition holds.
replaceRequest(x, req, unlessEmpty) ==
    IF x.threw THEN Throw(req)
    ELSE IF x.value /\ unlessEmpty THEN Return(emptyModulePath)
    ELSE Return(req)

\* normalModuleFactory.hooks.beforeResolve: resolveData.request afterwards.
beforeResolve(req, ctx, o) ==
    IF req # "" /\ isPageFile(req, ctx, o)
    THEN replaceRequest(shouldExcludePage(req, o), req, TRUE)
    ELSE Return(req)

\* normalModuleFactory.hooks.afterResolve: resolveData.request afterwards.
afterResolve(req, ctx, o) ==
    IF req # "" /\ isPageFile(req, ctx, o)
    THEN replaceRequest(shouldExcludePage(req, o), req, req # emptyModulePath)
    ELSE Return(req)

\* What buildModule leaves in module._filtered once shouldExcludePage has
\* ended as x.
markFiltered(x, resource) ==
    IF x.threw THEN Throw(FALSE)
    ELSE Return(x.value /\ resource # emptyModulePath)

\* compilation.hooks.buildModule: module._filtered afterwards.
buildModule(resource, ctx, o) ==
    IF resource # "" /\ isPageFile(resource, ctx, o)
    THEN markFiltered(shouldExcludePage(resource, o), resource)
    ELSE Return(FALSE)

(***************************************************************************)
(* The function setupModuleResolutionInterceptor() puts in the place of    *)
(* Module._resolveFilename.                                                *)
(***************************************************************************)
\* The inference the interceptor makes when nothing was extracted: an
\* absolute request outside node_modules is taken for a page path.
inferRoutePath(routePath, req) ==
    IF /\ Falsy(routePath)
       /\ req # ""
       /\ startsWith(req, "/")
       /\ ~startsWith(req, "/node_modules")
       /\ ~includes(req, "node_modules")
    THEN rootRoute(TrimSlashes(req))
    ELSE routePath

\* routePath as the interceptor has it before it tests anything.
interceptedRoute(req, o) ==
    inferRoutePath(extractRoutePath(normalizePath(req), o), req)

testPaths(req, routePath, o) ==
    << req,
       "/" \o o.pagesDir \o "/" \o routePath \o ".js",
       "/" \o o.pagesDir \o "/" \o routePath \o ".jsx",
       "/" \o o.pagesDir \o "/" \o routePath \o ".ts",
       "/" \o o.pagesDir \o "/" \o routePath \o ".tsx",
       "/" \o o.appDir \o "/" \o routePath \o "/page.js",
       "/" \o o.appDir \o "/" \o routePath \o "/page.jsx",
       "/" \o o.appDir \o "/" \o routePath \o "/page.ts",
       "/" \o o.appDir \o "/" \o routePath \o "/page.tsx",
       routePath,
       "/" \o routePath >>

\* The shorter list the catch block tests.
testPathsOnError(req, routePath, o) ==
    << req,
       "/" \o o.pagesDir \o "/" \o routePath \o ".js",
       "/" \o o.appDir \o "/" \o routePath \o "/page.js",
       routePath,
       "/" \o routePath >>

RECURSIVE someExcluded(_, _, _)
\* Array.prototype.some after shouldExcludePage ended as x for entry i.
nextTestPath(x, paths, i, o) ==
    IF x.threw \/ x.value THEN x ELSE someExcluded(paths, i + 1, o)

\* paths.some(testPath => self.shouldExcludePage(testPath)) from entry i on.
someExcluded(paths, i, o) ==
    IF i > Len(paths) THEN Return(FALSE)
    ELSE nextTestPath(shouldExcludePage(paths[i], o), paths, i, o)

\* The catch block without its last statement: the error is swallowed and
\* the interceptor returns undefined.
standInOrNothing(shouldExclude) ==
    IF ~shouldExclude.threw /\ shouldExclude.value THEN Return(emptyModulePath)
    ELSE Return("")

\* if (shouldExclude) return self.emptyModulePath; else throw e
standInOrRethrow(shouldExclude) ==
    IF ~shouldExclude.threw /\ shouldExclude.value THEN Return(emptyModulePath)
    ELSE Throw("")

\* The catch block: the resolution failed, or the try block threw.
catchBlock(req, routePath, o) ==
    standInOrRethrow(
        IF Falsy(routePath) THEN Return(FALSE)
        ELSE someExcluded(testPathsOnError(req, The(routePath), o), 1, o))

\* The try block once the resolved path, a page file, has its verdict x.
resolvedPage(x, req, routePath, resolution, o) ==
    IF x.threw THEN catchBlock(req, routePath, o)
    ELSE IF x.value THEN Return(emptyModulePath)
    ELSE resolution

\* The try block, the original Module._resolveFilename ending as `resolution`.
tryBlock(req, parentFile, routePath, resolution, o) ==
    IF resolution.threw THEN catchBlock(req, routePath, o)
    ELSE IF resolution.value # "" /\ isPageFile(resolution.value, parentFile, o)
    THEN resolvedPage(shouldExcludePage(resolution.value, o), req, routePath,
                      resolution, o)
    ELSE resolution

\* The interceptor once testPaths.some has ended as shouldExclude.
afterTestPaths(shouldExclude, req, parentFile, routePath, resolution, o) ==
    IF shouldExclude.threw THEN Throw("")
    ELSE IF shouldExclude.value THEN Return(emptyModulePath)
    ELSE tryBlock(req, parentFile, routePath, resolution, o)

\* The interceptor from the computation of routePath on.
interceptRoute(routePath, req, parentFile, resolution, o) ==
    afterTestPaths(
        IF Falsy(routePath) THEN Return(FALSE)
        ELSE someExcluded(testPaths(req, The(routePath), o), 1, o),
        req, parentFile, routePath, resolution, o)

\* The interceptor called with a request from the module parentFile, when
\* the original Module._resolveFilename would end as `resolution`.
resolveFilename(req, parentFile, resolution, o) ==
    interceptRoute(interceptedRoute(req, o), req, parentFile, resolution, o)

(***************************************************************************)
(* The configurations and the requests of the model.                       *)
(***************************************************************************)
\* The longest includedPages, excludedPages or excludePatterns list.
MaxPatterns == 3
\* The deepest route, in path segments.
MaxDepth == 3

Take(seq, n) == SubSeq(seq, 1, IF Len(seq) < n THEN Len(seq) ELSE n)

Prefixes(lists) == {Take(l, n) : l \in lists, n \in 0..MaxPatterns}

\* new NextBuildFilterPlugin(options): this.options, the directory names
\* left to their defaults.
NextBuildFilterPlugin(included, excluded, patterns, enabled, appRouter, pagesRouter) ==
    [ includedPages      |-> included,
      excludedPages      |-> excluded,
      enabled            |-> enabled,
      excludePatterns    |-> patterns,
      pagesDir           |-> "pages",
      appDir             |-> "app",
      supportAppRouter   |-> appRouter,
      supportPagesRouter |-> pagesRouter ]

IncludedLists == { <<"blog/**", "index">>, <<"index">> }

ExcludedLists ==
    { <<"admin/**", "dev/**">>, <<"admin", "dev/debug">>, <<"blog/\\[slug\\]">>,
      <<"blog/[slug]">>, <<"Admin/**">> }

PatternLists ==
    { <<"^api/v[0-9]+/">>, <<"(unterminated", "dev/.*">>,
      <<"dev/.*", ".*admin.*", "^api/v[0-9]+/", "[0-9">> }

\* Deny lists given next to an allow list, or next to each other.
DenyPairs ==
    { <<Take(<<"admin/**", "dev/**">>, MaxPatterns), Take(<<".*test.*", "dev/.*">>, MaxPatterns)>>,
      <<Take(<<"blog/**">>, MaxPatterns), Take(<<"(unterminated", ".*">>, MaxPatterns)>> }

Configurations ==
    {NextBuildFilterPlugin(<<>>, e, <<>>, TRUE, TRUE, TRUE) : e \in Prefixes(ExcludedLists)}
    \cup
    {NextBuildFilterPlugin(<<>>, <<>>, r, TRUE, TRUE, TRUE) : r \in Prefixes(PatternLists)}
    \cup
    {NextBuildFilterPlugin(<<>>, d[1], d[2], TRUE, TRUE, TRUE) : d \in DenyPairs}
    \cup
    {NextBuildFilterPlugin(i, d[1], d[2], TRUE, TRUE, TRUE) :
        i \in Prefixes(IncludedLists) \ {<<>>}, d \in DenyPairs \cup {<< <<>>, <<>> >>}}
    \cup
    {NextBuildFilterPlugin(<<>>, Take(<<"admin/**">>, MaxPatterns), <<>>, TRUE, a, b) :
        a \in BOOLEAN, b \in BOOLEAN}
    \cup
    {NextBuildFilterPlugin(<<>>, Take(<<"admin/**">>, MaxPatterns), <<>>, FALSE, TRUE, TRUE)}

RouteList ==
    { <<"admin">>, <<"admin", "users">>, <<"admin", "users", "edit">>,
      <<"admin", "settings", "advanced", "profile">>,
      <<"admin-panel">>, <<"user-admin">>, <<"admin", "index">>,
      <<"about">>, <<"index">>, <<"blog", "post1">>, <<"blog", "[slug]">>,
      <<"blog", "s">>,
      <<"api", "v2", "users">>, <<"api", "users">>, <<"dev", "debug">>,
      <<"(auth)", "login">> }

RECURSIVE Join(_)
\* segments.join('/')
Join(segments) ==
    IF Len(segments) = 0 THEN ""
    ELSE IF Len(segments) = 1 THEN segments[1]
    ELSE segments[1] \o "/" \o Join(Tail(segments))

Routes == {Join(r) : r \in {l \in RouteList : Len(l) <= MaxDepth}}

\* Where projects live: the second has directories named like routes above
\* its routing directory, the third is a directory named like the nested
\* routing directory.
Roots == {"/proj", "/api/v2/site", "/app"}

\* The route files of the projects, addressed by their absolute path: the
\* first project has both routing directories.
RouteFiles ==
    {root \o "/pages/" \o r \o ".js" : root \in Roots, r \in Routes}
    \cup
    {"/proj/app/" \o r \o "/page.tsx" : r \in Routes}

\* Other files a build meets, and other ways to write a request.
OtherFiles ==
    { "/proj/app/page.tsx", "/proj/app/layout.tsx", "/proj/app/admin/layout.tsx",
      "/proj/app/admin/loading.js", "/proj/app/default.tsx",
      "/proj/app/blog/homepage.tsx", "/proj/app/admin/users/form.tsx",
      "/proj/pages/_app.js", "/proj/pages/_document.js", "/proj/pages/404.js",
      "/proj/pages/styles.css", "/proj/lib/util.js", "/proj/components/Button.tsx",
      "private-next-pages/admin/users.js", "/admin", "/dev/debug", "react",
      "/proj/node_modules/react/index.js",
      "C:\\Proj\\Pages\\Admin\\Users.js", "/Proj/Pages/Admin/Users.js" }

\* Requests written relative to the directory of the requesting module.
RelativeRequests ==
    { <<"./layout.tsx", "/proj/app/admin/users">>,
      <<"./page.tsx", "/proj/app/admin/users">>,
      <<"./users.js", "/proj/pages/admin/index">>,
      <<"../../lib/util.js", "/proj/pages/admin/index">> }

\* <<request, context>>: what a hook, the resolver or a caller is given.
Inputs == {<<f, "">> : f \in RouteFiles \cup OtherFiles} \cup RelativeRequests

\* How the original Module._resolveFilename can end for a request: it finds
\* the file, adding the extension when the request has none, or, for a
\* request that is not one of the route files, it throws.
Resolutions(req) ==
    { IF \E ext \in pageExtensions \cup {".css"} : endsWith(req, ext)
      THEN Return(req) ELSE Return(req \o ".js") }
    \cup
    IF req \in RouteFiles THEN {} ELSE {Throw("")}

\* {}: an object is the function from its keys to their values.
EmptyObject == [k \in {} |-> ""]

\* A process in which nothing of the stand-in module, the pattern
\* compilations and the module loader has been touched.
ProcessInit ==
    /\ notFoundFn = null
    /\ React = null
    /\ res = null
    /\ compilations = EmptyObject
    /\ layers = <<>>
    /\ instances = EmptyObject

(***************************************************************************)
(* The state machine: one plugin instance, and the operations that reach   *)
(* its decision one at a time.                                             *)
(***************************************************************************)
Init ==
    /\ options \in Configurations
    /\ applied = FALSE
    /\ stage = "idle"
    /\ original = ""
    /\ context = ""
    /\ request = ""
    /\ filtered = FALSE
    /\ result = FALSE
    /\ threw = FALSE
    /\ argument = undefined
    /\ env = undefined
    /\ nextConfig = EmptyObject
    /\ wrapped = EmptyObject
    /\ config = EmptyObject
    /\ calls = <<>>
    /\ ProcessInit

\* apply(compiler): nothing when filtering is disabled; else the interceptor
\* is installed and the hooks are registered.
Apply ==
    /\ stage = "idle"
    /\ ~applied
    /\ applied' = options.enabled
    /\ UNCHANGED <<options, stage, original, context, request, filtered, result, threw>>
    /\ UNCHANGED <<argument, wrapVars>>
    /\ UNCHANGED processVars

\* webpack's module factory takes up a request: a fresh resolveData.
CreateModule(req, ctx) ==
    /\ stage = "idle"
    /\ applied
    /\ stage' = "create"
    /\ original' = req
    /\ context' = ctx
    /\ request' = req
    /\ UNCHANGED <<options, applied, filtered, result, threw>>
    /\ UNCHANGED <<argument, wrapVars>>
    /\ UNCHANGED processVars

BeforeResolve ==
    /\ stage = "create"
    /\ LET r == beforeResolve(request, context, options)
       IN  /\ request' = r.value
           /\ threw' = r.threw
           /\ stage' = IF r.threw THEN "failed" ELSE "resolve"
    /\ UNCHANGED <<options, applied, original, context, filtered, result>>
    /\ UNCHANGED <<argument, wrapVars>>
    /\ UNCHANGED processVars

AfterResolve ==
    /\ stage = "resolve"
    /\ LET r == afterResolve(request, context, options)
       IN  /\ request' = r.value
           /\ threw' = r.threw
           /\ stage' = IF r.threw THEN "failed" ELSE "resolved"
    /\ UNCHANGED <<options, applied, original, context, filtered, result>>
    /\ UNCHANGED <<argument, wrapVars>>
    /\ UNCHANGED processVars

\* The module is built from module.resource, which is resolveData.request.
BuildModule ==
    /\ stage = "resolved"
    /\ LET r == buildModule(request, context, options)
       IN  /\ filtered' = r.value
           /\ threw' = r.threw
           /\ stage' = IF r.threw THEN "failed" ELSE "built"
    /\ UNCHANGED <<options, applied, original, context, request, result>>
    /\ UNCHANGED <<argument, wrapVars>>
    /\ UNCHANGED processVars

\* Node resolves a require() through the interceptor; request keeps what
\* the original Module._resolveFilename would return.
ResolveFilename(req, parentFile) ==
    /\ stage = "idle"
    /\ applied
    /\ \E resolution \in Resolutions(req) :
          /\ LET r == resolveFilename(req, parentFile, resolution, options)
             IN  /\ result' = r.value
                 /\ threw' = r.threw
          /\ request' = IF resolution.threw THEN "" ELSE resolution.value
    /\ stage' = "required"
    /\ original' = req
    /\ context' = parentFile
    /\ UNCHANGED <<options, applied, filtered>>
    /\ UNCHANGED <<argument, wrapVars>>
    /\ UNCHANGED processVars

\* A caller asks plugin.shouldExcludePage(req).
ShouldExcludePage(req) ==
    /\ stage = "idle"
    /\ LET r == shouldExcludePage(req, options)
       IN  /\ result' = r.value
           /\ threw' = r.threw
    /\ stage' = "called"
    /\ original' = req
    /\ UNCHANGED <<options, applied, context, request, filtered>>
    /\ UNCHANGED <<argument, wrapVars>>
    /\ UNCHANGED processVars

\* A caller asks plugin.isPageFile(req, ctx).
IsPageFile(req, ctx) ==
    /\ stage = "idle"
    /\ result' = isPageFile(req, ctx, options)
    /\ stage' = "classified"
    /\ original' = req
    /\ context' = ctx
    /\ UNCHANGED <<options, applied, request, filtered, threw>>
    /\ UNCHANGED <<argument, wrapVars>>
    /\ UNCHANGED processVars

\* The operation is over: resolveData, the module and the returned value
\* are objects of that one call.
Finish ==
    /\ stage \in {"built", "required", "called", "classified", "failed",
                  "normalized", "extracted"}
    /\ stage' = "idle"
    /\ original' = ""
    /\ context' = ""
    /\ request' = ""
    /\ filtered' = FALSE
    /\ result' = FALSE
    /\ threw' = FALSE
    /\ argument' = undefined
    /\ UNCHANGED <<options, applied>>
    /\ UNCHANGED wrapVars
    /\ UNCHANGED processVars

Next ==
    \/ Apply
    \/ \E in \in Inputs : CreateModule(in[1], in[2])
    \/ BeforeResolve
    \/ AfterResolve
    \/ BuildModule
    \/ \E in \in Inputs : ResolveFilename(in[1], in[2])
    \/ \E in \in Inputs : ShouldExcludePage(in[1])
    \/ \E in \in Inputs : IsPageFile(in[1], in[2])
    \/ Finish

Spec == Init /\ [][Next]_vars

(***************************************************************************)
(* The path functions called on their own, as the unit tests call them:    *)
(* plugin.normalizePath(filePath) and plugin.extractRoutePath(request),    *)
(* over the files of a project whose directories are named from            *)
(* SegmentNames.                                                           *)
(***************************************************************************)
\* The deepest directory of a route file, in segments.
MaxSegments == 3

\* Directory names: a plain one, a dynamic segment, a route group, the
\* intercepting-route marker in front of a name, and a directory that is
\* named like the app directory.
SegmentNames == {"admin", "[slug]", "(auth)", "(.)photo", "app"}

RECURSIVE SegmentLists(_)
\* The directory chains of at most n segments.
SegmentLists(n) ==
    IF n = 0 THEN {<<>>}
    ELSE LET shorter == SegmentLists(n - 1)
         IN  shorter \cup {Append(l, x) : l \in shorter, x \in SegmentNames}

\* <root>/app/<segments>/page.<ext>
NestedFile(segments, ext) ==
    "/proj/app/" \o (IF Len(segments) = 0 THEN "" ELSE Join(segments) \o "/")
                 \o "page" \o ext

\* <root>/pages/<segments>.<ext>
FlatFile(segments, ext) == "/proj/pages/" \o Join(segments) \o ext

NestedFiles ==
    {NestedFile(l, ext) : l \in SegmentLists(MaxSegments), ext \in pageExtensions}

FlatFiles ==
    {FlatFile(l, ext) : l \in SegmentLists(MaxSegments) \ {<<>>}, ext \in pageExtensions}

\* Paths as an operating system or a caller may write them.
RawPaths ==
    { "pages\\admin\\users.js", "app\\blog\\page.tsx", "Pages/Admin/Users.js",
      "APP/BLOG/Page.tsx", "pages/about.js", "C:\\Proj\\App\\(Auth)\\Login\\Page.TSX",
      "C:\\Proj\\Pages\\Admin\\Users.js", "" }

\* What normalizePath is called with.
PathArguments ==
    {Str(p) : p \in RawPaths \cup {NestedFile(l, ".tsx") : l \in SegmentLists(MaxSegments)}}
    \cup
    { undefined, NonString("object", "null"), NonString("number", "42"),
      NonString("number", "0"), NonString("boolean", "true"),
      NonString("object", "[object Object]") }

\* What extractRoutePath is called with.
PathRequests ==
    NestedFiles \cup FlatFiles \cup {normalizePath(p) : p \in RawPaths}
    \cup
    {"/proj/pages/index" \o ext : ext \in pageExtensions}
    \cup
    { "private-next-pages/index.tsx",
      "private-next-pages/admin/users.js", "project/pages/about.js",
      "/proj/app/admin/layout.tsx", "/proj/app/blog/homepage.tsx",
      "/proj/app/", "/proj/pages/", "/proj/pages/.js", "/proj/app//admin//page.tsx",
      "/proj/app/(auth)/(shop)/page.js", "/proj/lib/util.js", "react" }

\* The routing modes a plugin can be built with.
RouterConfigurations ==
    {NextBuildFilterPlugin(<<>>, <<>>, <<>>, TRUE, a, b) : a \in BOOLEAN, b \in BOOLEAN}

PathInit ==
    /\ options \in RouterConfigurations
    /\ applied = FALSE
    /\ stage = "idle"
    /\ original = ""
    /\ context = ""
    /\ request = ""
    /\ filtered = FALSE
    /\ result = FALSE
    /\ threw = FALSE
    /\ argument = undefined
    /\ env = undefined
    /\ nextConfig = EmptyObject
    /\ wrapped = EmptyObject
    /\ config = EmptyObject
    /\ calls = <<>>
    /\ ProcessInit

\* A caller asks plugin.normalizePath(filePath).
NormalizePath(filePath) ==
    /\ stage = "idle"
    /\ argument' = filePath
    /\ result' = normalizePathOfValue(filePath)
    /\ stage' = "normalized"
    /\ UNCHANGED <<options, applied, original, context, request, filtered, threw>>
    /\ UNCHANGED wrapVars
    /\ UNCHANGED processVars

\* A caller asks plugin.extractRoutePath(normalizedRequest).
ExtractRoutePath(normalizedRequest) ==
    /\ stage = "idle"
    /\ request' = normalizedRequest
    /\ result' = extractRoutePath(normalizedRequest, options)
    /\ stage' = "extracted"
    /\ UNCHANGED <<options, applied, original, context, filtered, threw, argument>>
    /\ UNCHANGED wrapVars
    /\ UNCHANGED processVars

PathNext ==
    \/ \E filePath \in PathArguments : NormalizePath(filePath)
    \/ \E normalizedRequest \in PathRequests : ExtractRoutePath(normalizedRequest)
    \/ Finish

PathSpec == PathInit /\ [][PathNext]_vars

(***************************************************************************)
(* withPageFilter(options)(nextConfig) of src/lib/with-page-filter.js, and *)
(* the webpack function of the configuration it returns.  A JavaScript     *)
(* object is the function from its keys to their values; a function value  *)
(* is known by its name; an option that is not given is null.              *)
(***************************************************************************)
\* The most plugins a webpack configuration holds when Next.js hands it over.
MaxPlugins == 2

\* { ...a, ...b }
ObjectSpread(a, b) ==
    [k \in DOMAIN a \cup DOMAIN b |-> IF k \in DOMAIN b THEN b[k] ELSE a[k]]

\* optional ?? fallback, for an option that holds a boolean when given.
Nullish(optional, fallback) == IF optional = null THEN fallback ELSE The(optional)

\* !!optional
Truthy(optional) == optional = Some(TRUE)

\* The options with enabled: options.enabled || process.env.FILTER_PAGES ===
\* 'true': the environment switches on what the options switch off.
filterOptionsEnabledByOr(o, FILTER_PAGES) ==
    [ includedPages      |-> o.includedPages,
      excludedPages      |-> o.excludedPages,
      enabled            |-> Truthy(o.enabled) \/ FILTER_PAGES = Some("true"),
      excludePatterns    |-> o.excludePatterns,
      pagesDir           |-> "pages",
      appDir             |-> "app",
      supportAppRouter   |-> TRUE,
      supportPagesRouter |-> TRUE,
      enableInDev        |-> o.enableInDev ]

\* const filterOptions = { ...options, enabled: options.enabled ??
\* process.env.FILTER_PAGES === 'true', ... }
filterOptions(o, FILTER_PAGES) ==
    [ includedPages      |-> o.includedPages,
      excludedPages      |-> o.excludedPages,
      enabled            |-> Nullish(o.enabled, FILTER_PAGES = Some("true")),
      excludePatterns    |-> o.excludePatterns,
      pagesDir           |-> "pages",
      appDir             |-> "app",
      supportAppRouter   |-> TRUE,
      supportPagesRouter |-> TRUE,
      enableInDev        |-> o.enableInDev ]

\* The webpack function of the returned configuration, by name.
filterWebpack == "withPageFilter.webpack"

\* The wrapper with experimental: {} in place of the copy of
\* nextConfig.experimental.
withPageFilterFreshExperimental(o, FILTER_PAGES, nc) ==
    IF ~filterOptions(o, FILTER_PAGES).enabled THEN nc
    ELSE ObjectSpread(nc, ("webpack" :> filterWebpack) @@ ("experimental" :> EmptyObject))

\* (nextConfig = {}) => ...: nextConfig itself when filtering is disabled,
\* else { ...nextConfig, webpack, experimental: { ...nextConfig.experimental } }.
withPageFilter(o, FILTER_PAGES, nc) ==
    IF ~filterOptions(o, FILTER_PAGES).enabled THEN nc
    ELSE ObjectSpread(nc,
            ("webpack" :> filterWebpack) @@
            ("experimental" :> ObjectSpread(EmptyObject,
                IF "experimental" \in DOMAIN nc THEN nc["experimental"]
                ELSE EmptyObject)))

\* The webpack functions a project may have written: the one of the unit
\* test sets a property on the configuration it is given and returns it;
\* another returns a configuration object of its own.
existingWebpack(name, cfg) ==
    IF name = "existingWebpack" THEN [cfg EXCEPT !.customProperty = TRUE]
    ELSE [ object         |-> "configOfProject",
           plugins        |-> Append(cfg.plugins, "ProjectPlugin"),
           customProperty |-> cfg.customProperty ]

\* One entry of the call log.
Called(fn, cfg, opts) == [fn |-> fn, config |-> cfg, options |-> opts]

\* nextConfig.webpack(config, options) with its result dropped: the
\* configuration that was passed in goes on.
callExistingDropResult(nc, x, opts) ==
    IF "webpack" \in DOMAIN nc
    THEN [ config |-> x.config,
           calls  |-> Append(x.calls, Called(nc["webpack"], x.config, opts)) ]
    ELSE x

\* if (nextConfig.webpack) config = nextConfig.webpack(config, options)
callExisting(nc, x, opts) ==
    IF "webpack" \in DOMAIN nc
    THEN [ config |-> existingWebpack(nc["webpack"], x.config),
           calls  |-> Append(x.calls, Called(nc["webpack"], x.config, opts)) ]
    ELSE x

\* The push without the development gate.
pushPluginInEveryMode(fo, x, opts) ==
    [ config |-> [x.config EXCEPT !.plugins = Append(@, "NextBuildFilterPlugin")],
      calls  |-> Append(x.calls, Called("NextBuildFilterPlugin", x.config, opts)) ]

\* config.plugins.push(new NextBuildFilterPlugin(filterOptions)), unless
\* options.dev && !filterOptions.enableInDev; return config.
pushPlugin(fo, x, opts) ==
    IF opts.dev /\ ~Truthy(fo.enableInDev) THEN x
    ELSE [ config |-> [x.config EXCEPT !.plugins = Append(@, "NextBuildFilterPlugin")],
           calls  |-> Append(x.calls, Called("NextBuildFilterPlugin", x.config, opts)) ]

\* webpack: (config, options) => ...
webpack(nc, fo, cfg, opts) ==
    pushPlugin(fo,
               callExisting(nc, [config |-> cfg, calls |-> <<Called(filterWebpack, cfg, opts)>>],
                            opts),
               opts)

\* What Next.js does with the webpack key of a configuration: it calls the
\* function of withPageFilter, or the project's own function when the
\* configuration came back as it was given.
callWebpack(w, nc, fo, cfg, opts) ==
    IF w["webpack"] = filterWebpack THEN webpack(nc, fo, cfg, opts)
    ELSE [ config |-> existingWebpack(w["webpack"], cfg),
           calls  |-> <<Called(w["webpack"], cfg, opts)>> ]

\* The options a next.config.js gives to withPageFilter.
WrapperOptions ==
    { [ includedPages |-> <<>>, excludedPages |-> <<"admin/**">>,
        excludePatterns |-> <<>>, enabled |-> e, enableInDev |-> d ] :
        e \in {null, Some(TRUE), Some(FALSE)}, d \in {null, Some(TRUE), Some(FALSE)} }

\* process.env.FILTER_PAGES: not set, or set to some text.
EnvValues == {null, Some("true"), Some("false"), Some("1")}

\* The Next.js configurations that are wrapped.
NextConfigs ==
    { EmptyObject,
      ("reactStrictMode" :> "true"),
      ("webpack" :> "existingWebpack"),
      ("reactStrictMode" :> "true") @@ ("webpack" :> "ownConfigWebpack") @@
          ("experimental" :> (("appDir" :> "true") @@ ("serverActions" :> "true"))),
      ("experimental" :> EmptyObject) @@ ("webpack" :> "existingWebpack") }

RECURSIVE PluginLists(_)
\* The plugin lists of at most n plugins that Next.js has put in place.
PluginLists(n) ==
    IF n = 0 THEN {<<>>}
    ELSE LET shorter == PluginLists(n - 1)
         IN  shorter \cup {Append(l, x) : l \in shorter, x \in {"DefinePlugin", "NextPlugin"}}

\* The configurations Next.js hands to the webpack function, one object per
\* compilation.
WebpackConfigs ==
    { [object |-> "configOfNext", plugins |-> l, customProperty |-> FALSE] :
        l \in PluginLists(MaxPlugins) }

\* The second argument of the webpack function.
WebpackOptions == [dev : BOOLEAN, isServer : BOOLEAN]

WrapInit ==
    /\ options = EmptyObject
    /\ applied = FALSE
    /\ stage = "idle"
    /\ original = ""
    /\ context = ""
    /\ request = ""
    /\ filtered = FALSE
    /\ result = FALSE
    /\ threw = FALSE
    /\ argument \in WrapperOptions
    /\ env \in EnvValues
    /\ nextConfig = EmptyObject
    /\ wrapped = EmptyObject
    /\ config = EmptyObject
    /\ calls = <<>>
    /\ ProcessInit

\* next.config.js: module.exports = withPageFilter(options)(nextConfig).
WithPageFilter(nc) ==
    /\ stage = "idle"
    /\ nextConfig' = nc
    /\ options' = filterOptions(argument, env)
    /\ wrapped' = withPageFilter(argument, env, nc)
    /\ stage' = "wrapped"
    /\ UNCHANGED <<applied, original, context, request, filtered, result, threw>>
    /\ UNCHANGED <<argument, env, config, calls>>
    /\ UNCHANGED processVars

\* Next.js builds one compilation: it calls the webpack function of the
\* configuration it loaded, if there is one.
Webpack(cfg, opts) ==
    /\ stage = "wrapped"
    /\ "webpack" \in DOMAIN wrapped
    /\ LET r == callWebpack(wrapped, nextConfig, options, cfg, opts)
       IN  /\ config' = r.config
           /\ calls' = r.calls
    /\ stage' = "compiled"
    /\ UNCHANGED <<options, applied, original, context, request, filtered, result, threw>>
    /\ UNCHANGED <<argument, env, nextConfig, wrapped>>
    /\ UNCHANGED processVars

\* The compilation is set up; the next one (server, client) gets a
\* configuration object of its own.
NextCompilation ==
    /\ stage = "compiled"
    /\ stage' = "wrapped"
    /\ config' = EmptyObject
    /\ calls' = <<>>
    /\ UNCHANGED <<options, applied, original, context, request, filtered, result, threw>>
    /\ UNCHANGED <<argument, env, nextConfig, wrapped>>
    /\ UNCHANGED processVars

WrapNext ==
    \/ \E nc \in NextConfigs : WithPageFilter(nc)
    \/ \E cfg \in WebpackConfigs, opts \in WebpackOptions : Webpack(cfg, opts)
    \/ NextCompilation

WrapSpec == WrapInit /\ [][WrapNext]_vars

(***************************************************************************)
(* The stand-in module src/lib/empty-module.js: FilteredPage and its       *)
(* getInitialProps, in a process that serves requests for excluded routes. *)
(***************************************************************************)
\* The most calls of the stand-in the process log holds.
MaxRequests == 3

FILTER_MARKER == "NEXT_BUILD_FILTER_EXCLUDED_PAGE"

\* React.createElement(type, props, children)
createElement(type, props, children) ==
    [type |-> type, props |-> props, children |-> children]

\* The custom 404 component FilteredPage returns.
custom404 ==
    createElement("div",
        ("style" :> "centered") @@ ("data-filter-marker" :> FILTER_MARKER),
        << createElement("h1", ("key" :> "title"), "404"),
           createElement("p", ("key" :> "message"), "Page Not Available"),
           createElement("p", ("key" :> "detail"),
                         "This page has been filtered out during build."),
           createElement("div", ("key" :> "marker") @@ ("style" :> "display:none"),
                         FILTER_MARKER) >>)

\* function FilteredPage(): notFoundFn() when it is a function, and
\* notFound() of Next.js throws; else null without React; else the component.
\* signal tells whether notFoundFn was called.
FilteredPage(nf, R) ==
    IF nf = Some("function")
    THEN [threw |-> TRUE, value |-> null, signal |-> TRUE]
    ELSE IF R = null
         THEN [threw |-> FALSE, value |-> null, signal |-> FALSE]
         ELSE [threw |-> FALSE, value |-> Some(custom404), signal |-> FALSE]

\* FilteredPage.getInitialProps = ({ res }) => { if (res) res.statusCode =
\* 404; return {}; }: the response after the call.
getInitialProps(response) ==
    IF response # null THEN Some(404) ELSE null

\* What the two require calls at the head of the module can leave behind:
\* the function, nothing (the require threw), or an export that is no
\* function.
NotFoundValues == {null, Some("function"), Some("object")}

ReactValues == {null, Some("react")}

\* The res of the context Next.js passes: none on the client, or a response
\* with the status code it has so far.
Responses == {null, Some(200), Some(500)}

StandInInit ==
    /\ options = EmptyObject
    /\ applied = FALSE
    /\ stage = "idle"
    /\ original = ""
    /\ context = ""
    /\ request = ""
    /\ filtered = FALSE
    /\ result = null
    /\ threw = FALSE
    /\ argument = null
    /\ env = undefined
    /\ nextConfig = EmptyObject
    /\ wrapped = EmptyObject
    /\ config = EmptyObject
    /\ calls = <<>>
    /\ notFoundFn \in NotFoundValues
    /\ React \in ReactValues
    /\ res = null
    /\ compilations = EmptyObject
    /\ layers = <<>>
    /\ instances = EmptyObject

\* Next.js renders the stand-in for a request.
RenderFilteredPage ==
    /\ stage = "idle"
    /\ Len(calls) < MaxRequests
    /\ LET r == FilteredPage(notFoundFn, React)
       IN  /\ result' = r.value
           /\ threw' = r.threw
           /\ calls' = Append(calls, IF r.signal THEN "notFound" ELSE "FilteredPage")
    /\ stage' = "rendered"
    /\ UNCHANGED <<options, applied, original, context, request, filtered, argument>>
    /\ UNCHANGED <<env, nextConfig, wrapped, config>>
    /\ UNCHANGED <<notFoundFn, React, res, compilations, layers, instances>>

\* The Pages Router asks FilteredPage.getInitialProps({ res }).
GetInitialProps(response) ==
    /\ stage = "idle"
    /\ Len(calls) < MaxRequests
    /\ argument' = response
    /\ res' = getInitialProps(response)
    /\ result' = Some(EmptyObject)
    /\ calls' = Append(calls, "getInitialProps")
    /\ stage' = "propsGiven"
    /\ UNCHANGED <<options, applied, original, context, request, filtered, threw>>
    /\ UNCHANGED <<env, nextConfig, wrapped, config>>
    /\ UNCHANGED <<notFoundFn, React, compilations, layers, instances>>

\* The request is answered; the next one has a response of its own.
RequestServed ==
    /\ stage \in {"rendered", "propsGiven"}
    /\ stage' = "idle"
    /\ result' = null
    /\ threw' = FALSE
    /\ argument' = null
    /\ res' = null
    /\ UNCHANGED <<options, applied, original, context, request, filtered>>
    /\ UNCHANGED wrapVars
    /\ UNCHANGED <<notFoundFn, React, compilations, layers, instances>>

StandInNext ==
    \/ RenderFilteredPage
    \/ \E response \in Responses : GetInitialProps(response)
    \/ RequestServed

StandInSpec == StandInInit /\ [][StandInNext]_vars

(***************************************************************************)
(* What one plugin compiles over a sequence of shouldExcludePage calls.    *)
(* compilations counts, for each pattern of the configuration, how often   *)
(* it was handed to minimatch (which parses the glob) or to new RegExp;    *)
(* calls is the list of the calls made so far, each with the function, the *)
(* request and the value returned.                                         *)
(***************************************************************************)
MaxCalls == 3

RECURSIVE globsCompiled(_, _, _)
\* pages.some(callback) from entry i on: the callback hands every entry to
\* minimatch, up to the first entry for which it returns true.
globsCompiled(pages, i, routePath) ==
    IF i > Len(pages) THEN <<>>
    ELSE << <<"minimatch", normalizePath(pages[i])>> >>
         \o (IF pageMatches(routePath, pages[i]) THEN <<>>
             ELSE globsCompiled(pages, i + 1, routePath))

RECURSIVE regexesCompiled(_, _, _)
\* excludePatterns.some(callback) from entry i on: the callback evaluates
\* new RegExp(pattern) for every entry, up to the first that tests true.
regexesCompiled(patterns, i, routePath) ==
    IF i > Len(patterns) THEN <<>>
    ELSE << <<"RegExp", patterns[i]>> >>
         \o (IF excludePatternCallback(patterns[i], routePath).value THEN <<>>
             ELSE regexesCompiled(patterns, i + 1, routePath))

\* The patterns compiled by one shouldExcludePage call, in order.
compiledBy(routePath, o) ==
    IF Falsy(routePath) THEN <<>>
    ELSE IF Len(o.includedPages) > 0
    THEN globsCompiled(o.includedPages, 1, The(routePath))
    ELSE globsCompiled(o.excludedPages, 1, The(routePath))
         \o (IF Len(o.excludedPages) > 0 /\ isExcluded(The(routePath), o)
             THEN <<>>
             ELSE regexesCompiled(o.excludePatterns, 1, The(routePath)))

\* How often k occurs in the list.
Occurrences(list, k) == Cardinality({i \in 1..Len(list) : list[i] = k})

\* The patterns of a configuration.
patternsOf(o) ==
    {<<"minimatch", normalizePath(o.includedPages[i])>> : i \in 1..Len(o.includedPages)}
    \cup
    {<<"minimatch", normalizePath(o.excludedPages[i])>> : i \in 1..Len(o.excludedPages)}
    \cup
    {<<"RegExp", o.excludePatterns[i]>> : i \in 1..Len(o.excludePatterns)}

CompileConfigurations ==
    { NextBuildFilterPlugin(<<"admin/**", "blog">>, <<>>, <<>>, TRUE, TRUE, TRUE),
      NextBuildFilterPlugin(<<>>, <<"admin/**", "dev/debug">>, <<"^api/", "[">>,
                            TRUE, TRUE, TRUE),
      NextBuildFilterPlugin(<<>>, <<>>, <<"^api/", "users$">>, TRUE, TRUE, TRUE) }

CompileRequests ==
    { "/proj/pages/admin/users.js", "/proj/pages/api/users.js",
      "/proj/app/blog/page.tsx", "/proj/lib/util.js" }

\* new NextBuildFilterPlugin(options): the constructor stores the lists as
\* they are given and compiles nothing.
CompileInit ==
    /\ options \in CompileConfigurations
    /\ applied = FALSE
    /\ stage = "idle"
    /\ original = ""
    /\ context = ""
    /\ request = ""
    /\ filtered = FALSE
    /\ result = FALSE
    /\ threw = FALSE
    /\ argument = undefined
    /\ env = undefined
    /\ nextConfig = EmptyObject
    /\ wrapped = EmptyObject
    /\ config = EmptyObject
    /\ calls = <<>>
    /\ notFoundFn = null
    /\ React = null
    /\ res = null
    /\ compilations = [k \in patternsOf(options) |-> 0]
    /\ layers = <<>>
    /\ instances = EmptyObject

\* One call as the list of calls keeps it.
Answer(fn, req, v) == [function |-> fn, request |-> req, value |-> v]

\* The build asks plugin.shouldExcludePage(req) about one more file.
DecideFile(req) ==
    /\ stage = "idle"
    /\ Len(calls) < MaxCalls
    /\ LET r == shouldExcludePage(req, options)
       IN  /\ result' = r.value
           /\ threw' = r.threw
    /\ compilations' =
           [k \in DOMAIN compilations |->
               compilations[k] + Occurrences(
                   compiledBy(extractRoutePath(normalizePath(req), options),
                              options), k)]
    /\ calls' = Append(calls, Answer("shouldExcludePage", req,
                                     shouldExcludePage(req, options).value))
    /\ stage' = "called"
    /\ original' = req
    /\ UNCHANGED <<options, applied, context, request, filtered, argument>>
    /\ UNCHANGED <<env, nextConfig, wrapped, config>>
    /\ UNCHANGED <<notFoundFn, React, res, layers, instances>>

\* A worker asks plugin.isPageFile(req) about a file.
ClassifyFile(req) ==
    /\ stage = "idle"
    /\ Len(calls) < MaxCalls
    /\ result' = isPageFile(req, "", options)
    /\ calls' = Append(calls, Answer("isPageFile", req,
                                     isPageFile(req, "", options)))
    /\ stage' = "classified"
    /\ original' = req
    /\ context' = ""
    /\ UNCHANGED <<options, applied, request, filtered, threw, argument>>
    /\ UNCHANGED <<env, nextConfig, wrapped, config>>
    /\ UNCHANGED processVars

\* A worker asks plugin.extractRoutePath(plugin.normalizePath(req)).
ExtractRoute(req) ==
    /\ stage = "idle"
    /\ Len(calls) < MaxCalls
    /\ request' = normalizePath(req)
    /\ result' = extractRoutePath(normalizePath(req), options)
    /\ calls' = Append(calls, Answer("extractRoutePath", req,
                                     extractRoutePath(normalizePath(req), options)))
    /\ stage' = "extracted"
    /\ UNCHANGED <<options, applied, original, context, filtered, threw, argument>>
    /\ UNCHANGED <<env, nextConfig, wrapped, config>>
    /\ UNCHANGED processVars

CompileNext ==
    \/ \E req \in CompileRequests : DecideFile(req)
    \/ \E req \in CompileRequests : ClassifyFile(req)
    \/ \E req \in CompileRequests : ExtractRoute(req)
    \/ Finish

CompileSpec == CompileInit /\ [][CompileNext]_vars

(***************************************************************************)
(* Module._resolveFilename over the plugins of one build.  instances are   *)
(* the plugins constructed so far, layers the interceptors put in the      *)
(* place of Module._resolveFilename, from the first installed to the one   *)
(* now in place, each known by the plugin that installed it.  A stored     *)
(* originalResolveFilename is known by the number of layers under it.      *)
(* calls lists, for the last resolution, the plugins whose interceptor ran *)
(* its exclusion check.                                                    *)
(***************************************************************************)
MaxInstances == 3
MaxApplies == 2

\* The constructor: this.originalResolveFilename = null.
newPlugin == [originalResolveFilename |-> null, applies |-> 0]

\* if (this.originalResolveFilename) return;
alreadyIntercepted(plugin) == plugin.originalResolveFilename # null

\* The plugins after plugin i ran setupModuleResolutionInterceptor(), the
\* interceptors in place being lay.
setupInstances(i, inst, lay) ==
    IF alreadyIntercepted(inst[i]) THEN inst
    ELSE [inst EXCEPT ![i].originalResolveFilename = Some(Len(lay))]

\* Module._resolveFilename after plugin i ran
\* setupModuleResolutionInterceptor().
setupModuleResolutionInterceptor(i, inst, lay) ==
    IF alreadyIntercepted(inst[i]) THEN lay ELSE Append(lay, i)

\* The interceptor returns the stand-in, or throws, before it calls the
\* function it stored.
returnsBeforeResolving(req, o) ==
    /\ ~Falsy(interceptedRoute(req, o))
    /\ LET x == someExcluded(testPaths(req, The(interceptedRoute(req, o)), o), 1, o)
       IN  x.threw \/ x.value

RECURSIVE resolveThrough(_, _, _, _, _)
\* Module._resolveFilename with k interceptors in place: the interceptor on
\* top, whose stored function is what k - 1 interceptors make.
resolveThrough(k, req, parentFile, resolution, o) ==
    IF k = 0 THEN resolution
    ELSE resolveFilename(req, parentFile,
                         resolveThrough(k - 1, req, parentFile, resolution, o), o)

RECURSIVE checksRun(_, _, _, _)
\* The plugins whose interceptor ran testPaths.some(shouldExcludePage) in
\* one resolution through the k interceptors of lay, the top one first.
checksRun(k, lay, req, o) ==
    IF k = 0 \/ Falsy(interceptedRoute(req, o)) THEN <<>>
    ELSE <<lay[k]>> \o (IF returnsBeforeResolving(req, o) THEN <<>>
                        ELSE checksRun(k - 1, lay, req, o))

InterceptConfigurations ==
    { NextBuildFilterPlugin(<<>>, <<"admin/**">>, <<>>, TRUE, TRUE, TRUE),
      NextBuildFilterPlugin(<<>>, <<"admin/**">>, <<>>, FALSE, TRUE, TRUE) }

InterceptRequests ==
    { "/proj/pages/admin/users.js", "/proj/pages/about.js", "/about",
      "/proj/lib/util.js", "react" }

InterceptInit ==
    /\ options \in InterceptConfigurations
    /\ applied = FALSE
    /\ stage = "idle"
    /\ original = ""
    /\ context = ""
    /\ request = ""
    /\ filtered = FALSE
    /\ result = FALSE
    /\ threw = FALSE
    /\ argument = undefined
    /\ env = undefined
    /\ nextConfig = EmptyObject
    /\ wrapped = EmptyObject
    /\ config = EmptyObject
    /\ calls = <<>>
    /\ notFoundFn = null
    /\ React = null
    /\ res = null
    /\ compilations = EmptyObject
    /\ layers = <<>>
    /\ instances = <<>>

\* One more webpack invocation of the build: the webpack function of
\* withPageFilter constructs a plugin of its own from the same options.
NewPlugin ==
    /\ stage = "idle"
    /\ Len(instances) < MaxInstances
    /\ instances' = Append(instances, newPlugin)
    /\ UNCHANGED <<options, applied, stage, original, context, request, filtered,
                   result, threw, argument>>
    /\ UNCHANGED wrapVars
    /\ UNCHANGED <<notFoundFn, React, res, compilations, layers>>

\* apply(compiler) on plugin i: nothing when filtering is disabled; else
\* setupModuleResolutionInterceptor().
ApplyPlugin(i) ==
    /\ stage = "idle"
    /\ i <= Len(instances)
    /\ instances[i].applies < MaxApplies
    /\ IF options.enabled
       THEN /\ instances' =
                  [setupInstances(i, instances, layers)
                      EXCEPT ![i].applies = instances[i].applies + 1]
            /\ layers' = setupModuleResolutionInterceptor(i, instances, layers)
       ELSE /\ instances' = [instances EXCEPT ![i].applies = instances[i].applies + 1]
            /\ layers' = layers
    /\ applied' = options.enabled
    /\ UNCHANGED <<options, stage, original, context, request, filtered,
                   result, threw, argument>>
    /\ UNCHANGED wrapVars
    /\ UNCHANGED <<notFoundFn, React, res, compilations>>

\* Node resolves a require() through Module._resolveFilename as it now is.
Require(req) ==
    /\ stage = "idle"
    /\ \E resolution \in Resolutions(req) :
          /\ LET r == resolveThrough(Len(layers), req, "", resolution, options)
             IN  /\ result' = r.value
                 /\ threw' = r.threw
          /\ request' = IF resolution.threw THEN "" ELSE resolution.value
    /\ calls' = checksRun(Len(layers), layers, req, options)
    /\ stage' = "required"
    /\ original' = req
    /\ context' = ""
    /\ UNCHANGED <<options, applied, filtered, argument>>
    /\ UNCHANGED <<env, nextConfig, wrapped, config>>
    /\ UNCHANGED processVars

InterceptNext ==
    \/ NewPlugin
    \/ \E i \in 1..MaxInstances : ApplyPlugin(i)
    \/ \E req \in InterceptRequests : Require(req)
    \/ Finish

InterceptSpec == InterceptInit /\ [][InterceptNext]_vars

(***************************************************************************)
(* What the properties below speak of.                                     *)
(***************************************************************************)
\* The route identifier of a request under the configuration o, or null.
RouteId(req, o) == extractRoutePath(normalizePath(req), o)

\* new RegExp(source) succeeds.
WellFormed(source) == ~SyntaxError(source, 1, 0, FALSE)

\* new RegExp(source) succeeds and the expression is found in routeId.
RegexFinds(source, routeId) == WellFormed(source) /\ RegExpTest(source, routeId)

RECURSIVE LastSlash(_, _)
LastSlash(s, i) ==
    IF i = 0 THEN 0 ELSE IF Ch(s, i) = "/" THEN i ELSE LastSlash(s, i - 1)

\* The last segment of a path.
BaseName(s) == SubSeq(s, LastSlash(s, Len(s)) + 1, Len(s))

\* Two configurations that differ at most in their deny lists.
SameButDenyLists(a, b) ==
    [a EXCEPT !.excludedPages = <<>>, !.excludePatterns = <<>>]
        = [b EXCEPT !.excludedPages = <<>>, !.excludePatterns = <<>>]

\* The request of the state is a file of the pages directory that lies under
\* its api segment or has a reserved base name.
ReservedPagesFile ==
    /\ options.supportPagesRouter
    /\ includes(original, "/" \o options.pagesDir \o "/")
    /\ \/ includes(original, "/" \o options.pagesDir \o "/api/")
       \/ BaseName(original) \in
             {base \o ext : base \in {"_app", "_document", "_error", "404", "500"},
                            ext \in pageExtensions}

(***************************************************************************)
(* C1.  In deny-list mode with excludedPages = [p], a route file whose     *)
(* route identifier r is glob-matched by p, p taken as it is written in    *)
(* the configuration, is excluded.  The code matches r against             *)
(* normalizePath(p) instead: the backslashes that escape a glob character  *)
(* become slashes, and the route whose entry is written with them is not   *)
(* excluded.                                                               *)
(***************************************************************************)
GlobMatchAsWrittenExcludes ==
    ( /\ stage = "called"
      /\ original \in RouteFiles
      /\ Len(options.includedPages) = 0
      /\ Len(options.excludedPages) = 1 )
    => LET id == RouteId(original, options)
       IN  (~Falsy(id) /\ minimatch(The(id), options.excludedPages[1]))
           => (~threw /\ result = TRUE)

\* The route blog/[slug], its brackets escaped in the entry, is not excluded.
EscapedEntryNotExcluded ==
    /\ stage = "called"
    /\ original = "/proj/app/blog/[slug]/page.tsx"
    /\ options.excludedPages = <<"blog/\\[slug\\]">>
    /\ RouteId(original, options) = Some("blog/[slug]")
    /\ minimatch("blog/[slug]", options.excludedPages[1])
    /\ result = FALSE

(***************************************************************************)
(* C2.  When includedPages is not empty, every configuration that differs  *)
(* from the plugin's only in excludedPages and excludePatterns gives the   *)
(* verdict the plugin gave, for every path.                                *)
(***************************************************************************)
DenyListsIgnoredInAllowMode ==
    (stage = "called" /\ Len(options.includedPages) > 0)
    => /\ ~threw
       /\ \A c \in Configurations :
             SameButDenyLists(c, options)
             => shouldExcludePage(original, c) = Return(result)

\* A route an entry of excludedPages matches is kept by the allow list.
DenyListedRouteIncluded ==
    /\ stage = "called"
    /\ Len(options.includedPages) > 0
    /\ LET id == RouteId(original, options)
       IN  /\ ~Falsy(id)
           /\ \E i \in 1..Len(options.excludedPages) :
                 minimatch(The(id), options.excludedPages[i])
    /\ result = FALSE

RegexSearchesRouteId ==
    ( /\ stage = "called"
      /\ original \in RouteFiles
      /\ Len(options.includedPages) = 0
      /\ Len(options.excludedPages) = 0 )
    => LET id == RouteId(original, options)
       IN  ~Falsy(id)
           => /\ ~threw
              /\ result = \E j \in 1..Len(options.excludePatterns) :
                             RegexFinds(options.excludePatterns[j], The(id))
              /\ options.excludePatterns = <<"^api/v[0-9]+/">>
                 => /\ The(id) = "api/v2/users" => result = TRUE
                    /\ The(id) = "api/users" => result = FALSE

\* The project directory holds api/v2/ but the route, api/users, does not:
\* the file is not excluded.
PrefixOfPathNotSearched ==
    /\ stage = "called"
    /\ original = "/api/v2/site/pages/api/users.js"
    /\ options.excludePatterns = <<"^api/v[0-9]+/">>
    /\ Len(options.includedPages) = 0
    /\ Len(options.excludedPages) = 0
    /\ result = FALSE

(***************************************************************************)
(* C6.  shouldExcludePage never throws, and it returns what it returns     *)
(* when the malformed entries of excludePatterns are taken out of the      *)
(* list: a malformed entry matches nothing and the entries after it are    *)
(* still tested, in this call and in every later one.                      *)
(***************************************************************************)
MalformedRegexIgnored ==
    stage = "called"
    => /\ ~threw
       /\ (\E j \in 1..Len(options.excludePatterns) :
              ~WellFormed(options.excludePatterns[j]))
          => shouldExcludePage(original,
                [options EXCEPT !.excludePatterns = SelectSeq(@, WellFormed)])
                = Return(result)

\* A valid expression that follows a malformed one excludes the route.
LaterRegexStillExcludes ==
    /\ stage = "called"
    /\ options.excludePatterns = <<"(unterminated", "dev/.*">>
    /\ Len(options.includedPages) = 0
    /\ Len(options.excludedPages) = 0
    /\ RouteId(original, options) = Some("dev/debug")
    /\ result = TRUE

(***************************************************************************)
(* C7.  isPageFile returns true for a file under the app directory only    *)
(* if the base name of the file is exactly page.js, page.jsx, page.ts or   *)
(* page.tsx.  The code tests request.endsWith('page.tsx'): a base name     *)
(* that merely ends that way, homepage.tsx, is classified as a route.      *)
(***************************************************************************)
AppRouteOnlyIfBaseNameIsPage ==
    ( /\ stage = "classified"
      /\ options.supportAppRouter
      /\ includes(original, "/" \o options.appDir \o "/")
      /\ result = TRUE )
    => BaseName(original) \in {"page" \o ext : ext \in pageExtensions}

\* homepage.tsx is classified as a route file.
HomepageClassifiedAsRoute ==
    /\ stage = "classified"
    /\ original = "/proj/app/blog/homepage.tsx"
    /\ options.supportAppRouter
    /\ result = TRUE

(***************************************************************************)
(* C8.  A file of the pages directory that lies under its api segment, or  *)
(* has one of the reserved base names _app, _document, _error, 404 and     *)
(* 500, is never classified as a route and never replaced by the stand-in. *)
(* isPageFile has no such exception: it returns true for pages/_app.js.    *)
(***************************************************************************)
ReservedPagesNeverClassified ==
    /\ (stage = "classified" /\ ReservedPagesFile) => result = FALSE
    /\ (stage \in {"resolve", "resolved", "built"} /\ ReservedPagesFile)
          => (request = original /\ ~filtered)

\* Under an allow list that does not name it, pages/_app.js is replaced by
\* the stand-in.
AppWrapperReplaced ==
    /\ stage = "resolve"
    /\ original = "/proj/pages/_app.js"
    /\ Len(options.includedPages) > 0
    /\ request = emptyModulePath

(***************************************************************************)
(* C9.  A file isPageFile rejects is never replaced by the stand-in: not   *)
(* by beforeResolve, not by afterResolve, not marked by buildModule, and   *)
(* not by the Module._resolveFilename interceptor when the file is         *)
(* required by its path.  The interceptor tests its list of paths without  *)
(* asking isPageFile: app/admin/layout.tsx is replaced under               *)
(* excludedPages = ['admin/**'].                                           *)
(***************************************************************************)
RejectedFileNeverReplaced ==
    /\ ( /\ stage \in {"resolve", "resolved", "built"}
         /\ ~isPageFile(original, context, options) )
       => (request = original /\ ~filtered)
    /\ ( /\ stage = "required"
         /\ request = original
         /\ ~isPageFile(original, context, options) )
       => (~threw /\ result = original)

\* The interceptor returns the stand-in for the layout of the admin segment.
LayoutReplacedByInterceptor ==
    /\ stage = "required"
    /\ original = "/proj/app/admin/layout.tsx"
    /\ request = original
    /\ ~isPageFile(original, context, options)
    /\ options.excludedPages = <<"admin/**">>
    /\ ~threw
    /\ result = emptyModulePath

(***************************************************************************)
(* C10.  A request from which no route identifier can be extracted is      *)
(* always included: shouldExcludePage returns false for it, and the        *)
(* Module._resolveFilename interceptor never returns the stand-in for it.  *)
(* The interceptor infers a route from any absolute request outside        *)
(* node_modules: under includedPages = ['index'] it returns the stand-in   *)
(* for /proj/lib/util.js.                                                  *)
(***************************************************************************)
UnroutableRequestIncluded ==
    /\ (stage = "called" /\ Falsy(RouteId(original, options)))
       => (~threw /\ result = FALSE)
    /\ (stage = "required" /\ Falsy(RouteId(original, options)))
       => (threw \/ result # emptyModulePath)

\* A module outside both routing directories is replaced by the stand-in.
UtilityModuleReplaced ==
    /\ stage = "required"
    /\ original = "/proj/lib/util.js"
    /\ request = original
    /\ Falsy(RouteId(original, options))
    /\ options.includedPages = <<"index">>
    /\ ~threw
    /\ result = emptyModulePath

(***************************************************************************)
(* The route path a file is laid out for: what stands between the routing  *)
(* directory and the file name (nested layout) or the extension (flat      *)
(* layout).                                                                *)
(***************************************************************************)
\* The extension that ends a path, or "" when it is no source extension.
ExtensionOf(path) ==
    LET ends == {e \in pageExtensions : endsWith(path, e)}
    IN  IF ends = {} THEN ""
        ELSE CHOOSE x \in ends : \A y \in ends : Len(x) >= Len(y)

\* path is <root>/app/<s>/page.<ext> with s not empty.
IsNestedRouteFile(path) ==
    /\ startsWith(path, "/proj/app/")
    /\ ExtensionOf(path) # ""
    /\ endsWith(path, "/page" \o ExtensionOf(path))
    /\ Len(path) > Len("/proj/app/") + Len("/page" \o ExtensionOf(path))

\* path is <root>/pages/<s>.<ext> with s not empty.
IsFlatRouteFile(path) ==
    /\ startsWith(path, "/proj/pages/")
    /\ ExtensionOf(path) # ""
    /\ Len(path) > Len("/proj/pages/") + Len(ExtensionOf(path))

\* The s of the two layouts.
LaidOutRoute(path) ==
    IF IsNestedRouteFile(path)
    THEN SubSeq(path, Len("/proj/app/") + 1,
                Len(path) - Len("/page" \o ExtensionOf(path)))
    ELSE SubSeq(path, Len("/proj/pages/") + 1, Len(path) - Len(ExtensionOf(path)))

\* No parenthesis in s: no route group and no intercepting-route marker.
NoParentheses(s) == ~includes(s, "(") /\ ~includes(s, ")")

(***************************************************************************)
(* C11.  With both routing modes enabled, extractRoutePath returns the     *)
(* route path s both for <root>/app/<s>/page.<ext> and for                 *)
(* <root>/pages/<s>.<ext>, for every s of one or more segments and every   *)
(* source extension.  The code looks for /app/ first, anywhere in the      *)
(* path: for s = app/admin the flat file pages/app/admin.js yields         *)
(* admin.js while the nested file yields app/admin.                        *)
(***************************************************************************)
SameRouteInBothLayouts ==
    ( /\ stage = "extracted"
      /\ options.supportAppRouter
      /\ options.supportPagesRouter
      /\ request \in NestedFiles \cup FlatFiles
      /\ IsNestedRouteFile(request) \/ IsFlatRouteFile(request)
      /\ NoParentheses(LaidOutRoute(request)) )
    => result = Some(LaidOutRoute(request))

\* The flat file of the route app/admin extracts to admin.js.
FlatFileUnderAppSegment ==
    /\ stage = "extracted"
    /\ options.supportAppRouter
    /\ options.supportPagesRouter
    /\ request = "/proj/pages/app/admin.js"
    /\ extractRoutePath("/proj/app/app/admin/page.js", options) = Some("app/admin")
    /\ result = Some("admin.js")

(***************************************************************************)
(* C12.  normalizePath replaces every backslash by a slash and lowercases  *)
(* the whole string, returns '' for an empty, undefined or non-string      *)
(* argument, and is idempotent: normalizing its result changes nothing.    *)
(***************************************************************************)
NormalizePathLaws ==
    stage = "normalized"
    => /\ argument.type # "string" => result = ""
       /\ argument.type = "string"
          => /\ Len(result) = Len(argument.value)
             /\ \A i \in 1..Len(result) :
                   LET c == Ch(argument.value, i)
                   IN  Ch(result, i) = IF c = "\\" THEN "/"
                                       ELSE IF c \in DOMAIN LowerOf THEN LowerOf[c]
                                       ELSE c
       /\ normalizePathOfValue(Str(result)) = result

\* A Windows path with capitals has been normalized.
WindowsPathNormalized ==
    /\ stage = "normalized"
    /\ argument = Str("C:\\Proj\\Pages\\Admin\\Users.js")
    /\ result = "c:/proj/pages/admin/users.js"

\* A segment that is wholly wrapped in parentheses: a route group.
IsRouteGroup(segment) ==
    /\ Len(segment) >= 3
    /\ Ch(segment, 1) = "("
    /\ Ch(segment, Len(segment)) = ")"
    /\ NoParentheses(SubSeq(segment, 2, Len(segment) - 1))

\* The page files of the app directory that lie in route groups only.
RootPages ==
    {NestedFile(l, ext) :
        l \in {g \in SegmentLists(MaxSegments) : \A i \in 1..Len(g) : IsRouteGroup(g[i])},
        ext \in pageExtensions}
    \cup {"/proj/app/(auth)/(shop)/page.js"}

(***************************************************************************)
(* C13.  extractRoutePath never returns the empty string: it returns null  *)
(* or a non-empty identifier, and a path whose remainder after the routing *)
(* directory reduces to nothing (pages/index.<ext>; app/page.<ext>, also   *)
(* inside route groups only) yields the sentinel 'index'.                  *)
(***************************************************************************)
RouteIdNeverEmpty ==
    stage = "extracted"
    => /\ result = null \/ (\E id \in result : result = Some(id) /\ Len(id) > 0)
       /\ ( /\ options.supportPagesRouter
            /\ request \in {"/proj/pages/index" \o ext : ext \in pageExtensions} )
          => result = Some("index")
       /\ (options.supportAppRouter /\ request \in RootPages)
          => result = Some("index")

\* The page of a route group at the root of the app directory is the root
\* route.
GroupedRootPageIsIndex ==
    /\ stage = "extracted"
    /\ options.supportAppRouter
    /\ request = "/proj/app/(auth)/page.tsx"
    /\ result = Some("index")

(***************************************************************************)
(* C14.  Every route identifier extractRoutePath returns for a normalized  *)
(* path is well formed: lower case, segments separated by single slashes,  *)
(* no leading or trailing slash, and no source-file extension (.js, .jsx,  *)
(* .ts, .tsx) left at its end.  In the app directory the code removes the  *)
(* suffix page.<ext> only: app/admin/layout.tsx yields admin/layout.tsx.   *)
(***************************************************************************)
RouteIdWellFormed ==
    (stage = "extracted" /\ request = normalizePath(request) /\ result # null)
    => LET id == The(result)
       IN  /\ id = normalizePath(id)
           /\ ~startsWith(id, "/")
           /\ ~endsWith(id, "/")
           /\ ~includes(id, "//")
           /\ ExtensionOf(id) = ""

\* The identifier of a layout file of the app directory keeps its extension.
LayoutRouteKeepsExtension ==
    /\ stage = "extracted"
    /\ options.supportAppRouter
    /\ request = "/proj/app/admin/layout.tsx"
    /\ request = normalizePath(request)
    /\ result = Some("admin/layout.tsx")

\* The segments that are not route groups, joined: the route of a page file
\* that lies in the directory chain segments.
RouteWithoutGroups(segments) ==
    LET kept == SelectSeq(segments, LAMBDA x : ~IsRouteGroup(x))
    IN  IF Len(kept) = 0 THEN Some("index") ELSE Some(Join(kept))

(***************************************************************************)
(* C15.  For a page file of the app directory, extraction strips every     *)
(* segment that is wholly wrapped in parentheses, in whatever directory    *)
(* position, and removes nothing else: parentheses that are only part of   *)
(* a segment stay.  The code deletes every parenthesised text with the     *)
(* slash before it: admin/(.)photo becomes adminphoto.                     *)
(***************************************************************************)
OnlyRouteGroupSegmentsStripped ==
    ( /\ stage = "extracted"
      /\ options.supportAppRouter
      /\ startsWith(request, "/proj/app/") )
    => \A l \in SegmentLists(MaxSegments), ext \in pageExtensions :
          request = NestedFile(l, ext) => result = RouteWithoutGroups(l)

\* The parenthesised part of a segment has been removed, and the slash
\* before it.
PartOfSegmentRemoved ==
    /\ stage = "extracted"
    /\ options.supportAppRouter
    /\ request = "/proj/app/admin/(.)photo/page.tsx"
    /\ result = Some("adminphoto")

(***************************************************************************)
(* C16.  Extraction keeps a dynamic segment marker as it is written        *)
(* (app/blog/[slug]/page.tsx yields blog/[slug]), and the marker matches   *)
(* as literal text: an excludedPages entry equal to a route identifier     *)
(* that contains [param] excludes that route and no route whose identifier *)
(* differs from the entry.  The entry is handed to minimatch, where        *)
(* [slug] is a character class: blog/[slug] also excludes blog/s.          *)
(***************************************************************************)
DynamicSegmentIsLiteral ==
    stage = "called"
    => LET id == RouteId(original, options)
       IN  /\ ( /\ options.supportAppRouter
                /\ options.supportPagesRouter
                /\ original \in {"/proj/app/blog/[slug]/page.tsx",
                                 "/proj/pages/blog/[slug].js"} )
              => id = Some("blog/[slug]")
           /\ ( /\ Len(options.includedPages) = 0
                /\ Len(options.excludePatterns) = 0
                /\ Len(options.excludedPages) = 1
                /\ options.excludedPages[1] \in Routes
                /\ includes(options.excludedPages[1], "[")
                /\ ~Falsy(id) )
              => (~threw /\ result = (The(id) = options.excludedPages[1]))

\* The entry blog/[slug] has excluded the route blog/s.
OtherRouteExcludedByMarker ==
    /\ stage = "called"
    /\ options.excludedPages = <<"blog/[slug]">>
    /\ Len(options.includedPages) = 0
    /\ Len(options.excludePatterns) = 0
    /\ original = "/proj/pages/blog/s.js"
    /\ RouteId(original, options) = Some("blog/s")
    /\ result = TRUE

\* No character of p means anything to a glob.
NoGlobCharacter(p) ==
    \A i \in 1..Len(p) :
        Ch(p, i) \notin {"*", "?", "[", "]", "{", "}", "(", ")", "!", "+", "@", "|", "\\"}

FilteringDisabled ==
    \/ argument.enabled = Some(FALSE)
    \/ argument.enabled = null /\ env # Some("true")

\* The plugin has been constructed in the compilation of the state.
PluginConstructed ==
    \/ \E i \in 1..Len(calls) : calls[i].fn \in {filterWebpack, "NextBuildFilterPlugin"}
    \/ \E i \in 1..Len(config.plugins) : config.plugins[i] = "NextBuildFilterPlugin"

(***************************************************************************)
(* C18.  When filtering is disabled (enabled is false, or enabled is not   *)
(* given and FILTER_PAGES is not 'true'), withPageFilter(options)          *)
(* (nextConfig) returns nextConfig unchanged: no webpack function and no   *)
(* other key is added, removed or altered, and no plugin is constructed    *)
(* in any compilation.                                                     *)
(***************************************************************************)
DisabledReturnsNextConfig ==
    (stage \in {"wrapped", "compiled"} /\ FilteringDisabled)
    => /\ wrapped = nextConfig
       /\ DOMAIN wrapped = DOMAIN nextConfig
       /\ stage = "compiled" => ~PluginConstructed

\* With enabled: false and FILTER_PAGES = 'true', a project that has a
\* webpack function of its own has been compiled without the plugin.
DisabledProjectCompiled ==
    /\ stage = "compiled"
    /\ argument.enabled = Some(FALSE)
    /\ env = Some("true")
    /\ nextConfig = ("webpack" :> "existingWebpack")
    /\ wrapped = nextConfig
    /\ Len(calls) = 1
    /\ calls[1].fn = "existingWebpack"

\* The state is the end of a call of the webpack function that
\* withPageFilter returned; calls[1] holds the arguments of the call.
FilterWebpackReturned ==
    /\ stage = "compiled"
    /\ wrapped["webpack"] = filterWebpack

\* How many NextBuildFilterPlugin entries a plugin list holds.
FilterPlugins(plugins) ==
    Cardinality({i \in 1..Len(plugins) : plugins[i] = "NextBuildFilterPlugin"})

(***************************************************************************)
(* C19.  Development-mode gating: a call of the returned webpack function  *)
(* appends exactly one NextBuildFilterPlugin to config.plugins when        *)
(* options.dev is false or enableInDev is true, and appends nothing when   *)
(* options.dev is true and enableInDev is not true; the plugins already in *)
(* config.plugins are kept, in their order, in both cases.                 *)
(***************************************************************************)
OnePluginUnlessDevelopment ==
    FilterWebpackReturned
    => LET given == calls[1].config.plugins
           dev   == calls[1].options.dev
       IN  /\ SubSeq(config.plugins, 1, Len(given)) = given
           /\ IF ~dev \/ argument.enableInDev = Some(TRUE)
              THEN /\ FilterPlugins(config.plugins) = 1
                   /\ config.plugins[Len(config.plugins)] = "NextBuildFilterPlugin"
              ELSE /\ FilterPlugins(config.plugins) = 0
                   /\ \A i \in 1..Len(calls) : calls[i].fn # "NextBuildFilterPlugin"

\* In development with enableInDev: true the plugin has been appended
\* behind the plugin that was there.
PluginAppendedInDevelopment ==
    /\ FilterWebpackReturned
    /\ calls[1].options.dev
    /\ argument.enableInDev = Some(TRUE)
    /\ calls[1].config.plugins = <<"DefinePlugin">>
    /\ config.plugins = <<"DefinePlugin", "NextBuildFilterPlugin">>

\* The positions of the call log at which fn was called.
CallsOf(fn) == {i \in 1..Len(calls) : calls[i].fn = fn}

(***************************************************************************)
(* C20.  An existing nextConfig.webpack is preserved: in every call of the *)
(* returned webpack function it is invoked exactly once, with the config   *)
(* and the options of that call, before the filter plugin is added; the    *)
(* config it returns is the one that receives the plugin and is returned.  *)
(* The same holds in development mode, where no plugin is added: the       *)
(* config it returns is returned as it is.                                 *)
(***************************************************************************)
ExistingWebpackCalledFirst ==
    (FilterWebpackReturned /\ "webpack" \in DOMAIN nextConfig)
    => LET existing == nextConfig["webpack"]
           returned == existingWebpack(existing, calls[1].config)
       IN  /\ CallsOf(existing) = {2}
           /\ calls[2].config = calls[1].config
           /\ calls[2].options = calls[1].options
           /\ FilterPlugins(calls[2].config.plugins) = 0
           /\ \A i \in CallsOf("NextBuildFilterPlugin") :
                 i > 2 /\ calls[i].config = returned
           /\ config.object = returned.object
           /\ config.customProperty = returned.customProperty
           /\ IF CallsOf("NextBuildFilterPlugin") = {}
              THEN config = returned
              ELSE config.plugins = Append(returned.plugins, "NextBuildFilterPlugin")

\* A project function that returns a configuration of its own: the plugin
\* has gone into that configuration, behind the plugin of the project.
PluginAddedToReturnedConfig ==
    /\ FilterWebpackReturned
    /\ "webpack" \in DOMAIN nextConfig
    /\ nextConfig["webpack"] = "ownConfigWebpack"
    /\ ~calls[1].options.dev
    /\ calls[1].config.object = "configOfNext"
    /\ Len(calls) = 3
    /\ config.object = "configOfProject"
    /\ config.plugins = <<"ProjectPlugin", "NextBuildFilterPlugin">>

(***************************************************************************)
(* C21.  When filtering is enabled, the configuration withPageFilter       *)
(* returns keeps every key of nextConfig other than webpack with its       *)
(* value, and its experimental object has exactly the entries of           *)
(* nextConfig.experimental: it is the empty object when nextConfig has     *)
(* none.  No key but webpack and experimental is added.                    *)
(***************************************************************************)
EnabledKeepsOtherKeys ==
    (stage \in {"wrapped", "compiled"} /\ ~FilteringDisabled)
    => /\ \A k \in DOMAIN nextConfig \ {"webpack"} :
             k \in DOMAIN wrapped /\ wrapped[k] = nextConfig[k]
       /\ DOMAIN wrapped = DOMAIN nextConfig \cup {"webpack", "experimental"}
       /\ wrapped["experimental"] =
             IF "experimental" \in DOMAIN nextConfig
             THEN nextConfig["experimental"] ELSE EmptyObject

\* A configuration with reactStrictMode and two experimental settings has
\* been wrapped by FILTER_PAGES=true alone.
ExperimentalSettingsKept ==
    /\ stage = "wrapped"
    /\ argument.enabled = null
    /\ env = Some("true")
    /\ "reactStrictMode" \in DOMAIN nextConfig
    /\ "experimental" \in DOMAIN nextConfig
    /\ DOMAIN nextConfig["experimental"] = {"appDir", "serverActions"}
    /\ wrapped["webpack"] = filterWebpack
    /\ wrapped["reactStrictMode"] = "true"
    /\ wrapped["experimental"] = nextConfig["experimental"]

\* The markup holds the marker: as a property of the element or as the
\* text of one of its children.
EmbedsMarker(markup) ==
    \/ \E k \in DOMAIN markup.props : markup.props[k] = FILTER_MARKER
    \/ \E i \in 1..Len(markup.children) : markup.children[i].children = FILTER_MARKER

(***************************************************************************)
(* C22.  The stand-in always signals not-found and is recognisable: on     *)
(* every render path FilteredPage either invokes the not-found signal or   *)
(* returns markup that embeds NEXT_BUILD_FILTER_EXCLUDED_PAGE, and         *)
(* getInitialProps sets the status code of the response to 404 whenever a  *)
(* response is supplied.  When neither next/navigation's notFound nor      *)
(* React could be loaded, FilteredPage returns null.                       *)
(***************************************************************************)
StandInSignalsOrEmbedsMarker ==
    /\ stage = "rendered"
       => \/ calls[Len(calls)] = "notFound"
          \/ result # null /\ EmbedsMarker(The(result))
    /\ (stage = "propsGiven" /\ argument # null) => res = Some(404)

\* FilteredPage has returned null without calling notFound.
StandInRenderedNothing ==
    /\ stage = "rendered"
    /\ notFoundFn # Some("function")
    /\ React = null
    /\ calls[Len(calls)] = "FilteredPage"
    /\ ~threw
    /\ result = null

\* The entry, taken as it is written, matches the route: by glob, as the
\* same text, or as the directory above it.
MatchesAsWritten(routePath, entry) ==
    \/ minimatch(routePath, entry)
    \/ routePath = entry
    \/ startsWith(routePath, entry \o "/")

\* No entry of the list is written with a backslash.
NoBackslash(entries) ==
    \A i \in 1..Len(entries) : ~includes(entries[i], "\\")

(***************************************************************************)
(* C23.  Page paths are matched case-sensitively: an includedPages or      *)
(* excludedPages entry that differs from the path of a page only in letter *)
(* case does not match that page.  So for a page whose path is written in  *)
(* lower case, the page is excluded by the deny list, or kept by the allow *)
(* list, only if an entry matches it as the entry is written.  The code    *)
(* lower-cases the entries: Admin/** excludes admin/users.                 *)
(***************************************************************************)
EntriesMatchCaseSensitively ==
    ( /\ stage = "called"
      /\ original = normalizePath(original)
      /\ Len(options.excludePatterns) = 0
      /\ NoBackslash(options.includedPages)
      /\ NoBackslash(options.excludedPages) )
    => LET id == RouteId(original, options)
       IN  ~Falsy(id)
           => IF Len(options.includedPages) > 0
              THEN result = FALSE
                   => \E i \in 1..Len(options.includedPages) :
                         MatchesAsWritten(The(id), options.includedPages[i])
              ELSE result = TRUE
                   => \E i \in 1..Len(options.excludedPages) :
                         MatchesAsWritten(The(id), options.excludedPages[i])

\* The entry Admin/** has excluded the page admin/users.
CapitalisedEntryExcludes ==
    /\ stage = "called"
    /\ original = "/proj/pages/admin/users.js"
    /\ options.excludedPages = <<"Admin/**">>
    /\ Len(options.includedPages) = 0
    /\ Len(options.excludePatterns) = 0
    /\ ~MatchesAsWritten("admin/users", "Admin/**")
    /\ result = TRUE

\* The flat route files of the projects, as <<root, s>>.
FlatRouteFiles == Roots \X Routes

(***************************************************************************)
(* C24.  With both routing modes enabled, a flat route file                *)
(* <root>/pages/<s>.<ext> is classified as a route by isPageFile and       *)
(* extracts to the identifier s, whatever directory names occur in <root>, *)
(* a directory named app included.  The code looks for /app/ first: for    *)
(* the project under /app/ the file /app/pages/admin.js is not classified  *)
(* and extracts to pages/admin.js.                                         *)
(***************************************************************************)
FlatRouteUnderAnyRoot ==
    ( /\ stage = "classified"
      /\ options.supportAppRouter
      /\ options.supportPagesRouter )
    => \A f \in FlatRouteFiles :
          original = f[1] \o "/pages/" \o f[2] \o ".js"
          => /\ result = TRUE
             /\ RouteId(original, options) = Some(f[2])

\* The route admin of the project under /app/ is not classified, and its
\* file does not extract to admin.
ProjectUnderAppNotClassified ==
    /\ stage = "classified"
    /\ options.supportAppRouter
    /\ options.supportPagesRouter
    /\ original = "/app/pages/admin.js"
    /\ context = ""
    /\ result = FALSE
    /\ RouteId(original, options) = Some("pages/admin.js")

(***************************************************************************)
(* C25.  Pattern compilation is amortized: glob parsing and regular        *)
(* expression construction happen once when the filter configuration is    *)
(* built, so over any sequence of shouldExcludePage calls against one      *)
(* configuration the number of compilations of each pattern stays at one   *)
(* and does not grow with the number of calls.  The constructor compiles   *)
(* nothing and every call compiles the patterns it reaches again.          *)
(***************************************************************************)
EachPatternCompiledOnce ==
    \A k \in DOMAIN compilations : compilations[k] <= 1

\* After two calls the same regular expression has been constructed twice.
RegExpConstructedPerCall ==
    /\ stage = "called"
    /\ Len(calls) = 2
    /\ <<"RegExp", "^api/">> \in DOMAIN compilations
    /\ compilations[<<"RegExp", "^api/">>] = 2

PageEntries(o) ==
    {o.includedPages[i] : i \in 1..Len(o.includedPages)}
    \cup {o.excludedPages[i] : i \in 1..Len(o.excludedPages)}

(***************************************************************************)
(* C27.  The two legacy fallbacks relate by inclusion: for the same route  *)
(* id and entry, whenever the callback of next-build-filter-plugin.js      *)
(* (prefix followed by a slash) is satisfied, the callback of              *)
(* with-page-filter.js (substring) is satisfied too; and the converse      *)
(* fails: route admin-panel satisfies entry admin under the substring      *)
(* callback and not under the prefix callback.                             *)
(***************************************************************************)
PrefixFallbackWithinSubstringFallback ==
    /\ pageMatchesBySubstring("admin-panel", "admin")
    /\ ~pageMatches("admin-panel", "admin")
    /\ stage = "called"
       => LET id == RouteId(original, options)
          IN  ~Falsy(id)
              => \A page \in PageEntries(options) :
                    pageMatches(The(id), page)
                    => pageMatchesBySubstring(The(id), page)

\* The route admin/users was excluded by the entry admin through the prefix
\* fallback, which the substring callback satisfies as well.
ExcludedThroughPrefixFallback ==
    /\ stage = "called"
    /\ original = "/proj/pages/admin/users.js"
    /\ Len(options.includedPages) = 0
    /\ Len(options.excludedPages) > 0
    /\ options.excludedPages[1] = "admin"
    /\ ~minimatch("admin/users", "admin")
    /\ pageMatches("admin/users", "admin")
    /\ pageMatchesBySubstring("admin/users", "admin")
    /\ result = TRUE

(***************************************************************************)
(* C28.  Module resolution is intercepted only if it is not already        *)
(* intercepted: after any number of apply() calls, on one plugin or on     *)
(* the several plugins of one build, Module._resolveFilename is wrapped by *)
(* at most one interceptor layer and a resolution runs the exclusion check *)
(* at most once.  The code keeps its guard in the plugin, so that every    *)
(* plugin of the build adds a layer of its own.                            *)
(***************************************************************************)
AtMostOneInterceptorLayer ==
    /\ Len(layers) <= 1
    /\ stage = "required" => Len(calls) <= 1

\* Two plugins of one build were applied: a page that is kept was resolved
\* through two layers, each running the exclusion check.
ResolvedThroughTwoLayers ==
    /\ stage = "required"
    /\ Len(instances) = 2
    /\ layers = <<1, 2>>
    /\ original = "/proj/pages/about.js"
    /\ calls = <<2, 1>>
    /\ result = "/proj/pages/about.js"

\* One of the paths the interceptor tests for the request, or the path the
\* request resolved to, is decided excluded.
InterceptorDecidesExcluded(req, resolved, o) ==
    \/ /\ ~Falsy(interceptedRoute(req, o))
       /\ \E i \in 1..Len(testPaths(req, The(interceptedRoute(req, o)), o)) :
             shouldExcludePage(testPaths(req, The(interceptedRoute(req, o)), o)[i], o).value
    \/ /\ resolved # ""
       /\ shouldExcludePage(resolved, o).value

(***************************************************************************)
(* C29.  Interception is transparent for everything that is not excluded:  *)
(* for a request that is not decided excluded, beforeResolve and           *)
(* afterResolve leave resolveData.request unchanged, buildModule does not  *)
(* mark the module, and the Module._resolveFilename interceptor returns    *)
(* exactly what the original resolver returns for the same arguments, or   *)
(* throws when the original resolver throws.                               *)
(***************************************************************************)
TransparentUnlessExcluded ==
    /\ ( /\ stage \in {"resolve", "resolved", "built"}
         /\ ~shouldExcludePage(original, options).value )
       => (request = original /\ ~filtered)
    /\ ( /\ stage = "required"
         /\ ~InterceptorDecidesExcluded(original, request, options) )
       => /\ threw <=> request = ""
          /\ ~threw => result = request

\* The resolution of a module that is not excluded failed, and the
\* interceptor threw in its turn.
FailedResolutionRethrown ==
    /\ stage = "required"
    /\ original = "/proj/lib/util.js"
    /\ options.excludedPages = <<"admin/**">>
    /\ Len(options.includedPages) = 0
    /\ ~InterceptorDecidesExcluded(original, request, options)
    /\ request = ""
    /\ threw

(***************************************************************************)
(* C30.  The decision of the resolve hooks is invariant under path         *)
(* normalization: for every raw request path p, beforeResolve puts the     *)
(* stand-in in the place of p if and only if it does so for                *)
(* normalizePath(p).  The code classifies the request as it is written:    *)
(* C:\Proj\Pages\Admin\Users.js is left alone under admin/** while its     *)
(* normalized form is replaced.                                            *)
(***************************************************************************)
SameVerdictForNormalizedRequest ==
    stage = "resolve"
    => ( request = emptyModulePath
         <=> beforeResolve(normalizePath(original), context, options).value
                = emptyModulePath )

\* The page written with backslashes and capitals has passed beforeResolve
\* untouched; its normalized form is replaced.
WindowsRequestNotReplaced ==
    /\ stage = "resolve"
    /\ original = "C:\\Proj\\Pages\\Admin\\Users.js"
    /\ context = ""
    /\ options.excludedPages = <<"admin/**">>
    /\ Len(options.includedPages) = 0
    /\ request = original
    /\ normalizePath(original) = "c:/proj/pages/admin/users.js"
    /\ beforeResolve("c:/proj/pages/admin/users.js", "", options).value = emptyModulePath

====
